---- MODULE Spec2Model ----
(***************************************************************************)
(* A model of the e-commerce analytics toolkit: the synthetic data         *)
(* generator, the two processing pipelines and the customer analytics      *)
(* engine.  Tables are sequences of records (one record per row, in row    *)
(* order); a nullable cell is <<>> (null / NaN) or <<v>>.                  *)
(***************************************************************************)
EXTENDS Integers, Sequences, FiniteSets, TLC

VARIABLES
    customers,      \* raw customers table (data/raw/customers.csv)
    products,       \* raw products table (data/raw/products.csv)
    transactions,   \* raw transactions table (data/raw/transactions.csv)
    dataset,        \* raw real-schema table (DATASET.csv)
    master,         \* the master table a pipeline returned
    pipe,           \* which pipeline has run: "raw", "synthetic", "real"
    sizes,          \* the generator's NUM_CUSTOMERS, NUM_PRODUCTS, NUM_TRANSACTIONS
    gen,            \* per generator run: random sources, tables, position
    df,             \* the table handed to an analytics function (a set of rows)
    result,         \* what the analytics function returned, or raised
    file,           \* data/processed/master_dataset.csv: Null when missing
    cache,          \* the st.cache_data entry of load_data(): Null when empty
    reads,          \* how many times load_master has read the file
    run             \* what the latest run of the dashboard script did

pipeVars == <<customers, products, transactions, dataset, master, pipe>>

genVars == <<sizes, gen>>

engineVars == <<df, result>>

dashVars == <<file, cache, reads, run>>

vars == <<pipeVars, genVars, engineVars, dashVars>>

----------------------------------------------------------------------------
(* Generic helpers *)

Null == <<>>

Val(v) == <<v>>

IsNull(c) == c = Null

\* No analytics function has been called.
NoResult == [op |-> "none", arg |-> 0, error |-> "none", table |-> <<>>]

\* The dashboard script has not run yet.
NoRun ==
    [halted |-> FALSE, error |-> "none", sidebar |-> Null, widgets |-> Null,
     df |-> Null, filtered_df |-> Null, page |-> "none"]

\* No dashboard session is open: no file, nothing cached, nothing run.
DashIdle == file = Null /\ cache = Null /\ reads = 0 /\ run = NoRun

\* The state in which an analytics function is called on one of the tables:
\* nothing returned yet, the pipelines, the generator and the dashboard idle.
EngineStart(tables) ==
    /\ df \in tables
    /\ result = NoResult
    /\ customers = <<>>
    /\ products = <<>>
    /\ transactions = <<>>
    /\ dataset = <<>>
    /\ master = <<>>
    /\ pipe = "raw"
    /\ sizes = [nc |-> 0, np |-> 0, nt |-> 0]
    /\ gen = <<>>
    /\ DashIdle

\* The function f as a stored table: its values are computed once, not again
\* on every read.
Stored(f) == IF f = f THEN f ELSE f

BoundedSeq(S, n) == UNION {[1..k -> S] : k \in 0..n}

\* The rows of table t whose index is in I, in row order.
RECURSIVE RowsAt(_, _, _)
RowsAt(t, I, i) ==
    IF i > Len(t) THEN <<>>
    ELSE (IF i \in I THEN <<t[i]>> ELSE <<>>) \o RowsAt(t, I, i + 1)

----------------------------------------------------------------------------
(* src/src/data_processing.py : clean_and_merge *)

\* A variant of drop_duplicates that drops nothing.
DropDuplicatesNone(t, key) == t

\* DataFrame.drop_duplicates(subset=[key]): keep the first row of each key.
DropDuplicates(t, key) ==
    RowsAt(t, {i \in 1..Len(t) :
                 \A j \in 1..(i - 1) : t[j][key] # t[i][key]}, 1)

\* A variant of the status filter that also lets Returned rows through.
FilterCompletedOrReturned(t) ==
    SelectSeq(t, LAMBDA r : r.status \in {"Completed", "Returned"})

\* transactions[transactions["status"] == "Completed"]
FilterCompleted(t) ==
    SelectSeq(t, LAMBDA r : r.status = "Completed")

\* left.merge(right, on=key, how="left"), as pairs <<left row, right cell>>:
\* every left row, in order, once per right row with the same key, and once
\* with a null right cell when no right row has it.
RECURSIVE LeftMerge(_, _, _, _)
LeftMerge(left, right, key, i) ==
    IF i > Len(left) THEN <<>>
    ELSE LET m == SelectSeq(right, LAMBDA r : r[key] = left[i][key])
             rows == IF m = <<>> THEN << <<left[i], Null>> >>
                     ELSE [j \in 1..Len(m) |-> <<left[i], Val(m[j])>>]
         IN  rows \o LeftMerge(left, right, key, i + 1)

\* Arithmetic on nullable cells: null in, null out.
NSub(a, b) == IF IsNull(a) \/ IsNull(b) THEN Null ELSE Val(a[1] - b[1])

NMul(a, b) == IF IsNull(a) \/ IsNull(b) THEN Null ELSE Val(a[1] * b[1])

\* A variant of the profit column that forgets the discount.
ProfitNoDiscount(price, cost, quantity, discount) ==
    NMul(NSub(price, cost), Val(quantity))

\* master["profit"] = (price - cost) * quantity - discount
ProfitColumn(price, cost, quantity, discount) ==
    NSub(NMul(NSub(price, cost), Val(quantity)), Val(discount))

JoinProduct(t, p) ==
    [transaction_id |-> t.transaction_id, customer_id |-> t.customer_id,
     product_id |-> t.product_id, quantity |-> t.quantity,
     discount |-> t.discount, status |-> t.status,
     prod_row |-> IF IsNull(p) THEN Null ELSE Val(p[1].row),
     price |-> IF IsNull(p) THEN Null ELSE Val(p[1].price),
     cost |-> IF IsNull(p) THEN Null ELSE Val(p[1].cost)]

JoinCustomer(t, c) ==
    [transaction_id |-> t.transaction_id, customer_id |-> t.customer_id,
     product_id |-> t.product_id, quantity |-> t.quantity,
     discount |-> t.discount, status |-> t.status,
     prod_row |-> t.prod_row, price |-> t.price, cost |-> t.cost,
     cust_row |-> IF IsNull(c) THEN Null ELSE Val(c[1].row)]

WithProfit(r) ==
    [transaction_id |-> r.transaction_id, customer_id |-> r.customer_id,
     product_id |-> r.product_id, quantity |-> r.quantity,
     discount |-> r.discount, status |-> r.status,
     prod_row |-> r.prod_row, price |-> r.price, cost |-> r.cost,
     cust_row |-> r.cust_row,
     profit |-> ProfitColumn(r.price, r.cost, r.quantity, r.discount)]

\* clean_and_merge(customers, products, transactions)
CleanAndMergeTable(cs, ps, ts) ==
    LET cust == DropDuplicates(cs, "customer_id")
        prod == DropDuplicates(ps, "product_id")
        transactions_filtered == FilterCompleted(ts)
        m1 == LeftMerge(transactions_filtered, prod, "product_id", 1)
        j1 == [i \in 1..Len(m1) |-> JoinProduct(m1[i][1], m1[i][2])]
        m2 == LeftMerge(j1, cust, "customer_id", 1)
        j2 == [i \in 1..Len(m2) |-> JoinCustomer(m2[i][1], m2[i][2])]
    IN  [i \in 1..Len(j2) |-> WithProfit(j2[i])]

CleanAndMerge ==
    /\ pipe = "raw"
    /\ master' = CleanAndMergeTable(customers, products, transactions)
    /\ pipe' = "synthetic"
    /\ UNCHANGED <<customers, products, transactions, dataset, genVars, engineVars,
                   dashVars>>

----------------------------------------------------------------------------
(* src/src/real_data_processing.py : load_and_process_real_data *)
(* Money is counted in mills (1/1000 of the currency unit), so that a value *)
(* with more than two decimals exists and round(2) is not the identity.    *)

\* The integer nearest to n / d (d > 0), ties to the even integer.
RoundHalfEven(n, d) ==
    LET q == n \div d
        r == n % d
    IN  IF 2 * r < d THEN q
        ELSE IF 2 * r > d THEN q + 1
        ELSE IF q % 2 = 0 THEN q ELSE q + 1

\* Series.round(2) of the value n / d mills, in mills.
Round2(n, d) == 10 * RoundHalfEven(n, 10 * d)

\* df_processed['cost'] = (df_processed['unit_price'] * 0.6).round(2)
RealCost(unit_price) == Round2(unit_price * 6, 10)

\* df_processed['profit'] =
\*   ((unit_price - cost) * quantity - discount).round(2)
RealProfit(unit_price, cost, quantity, discount) ==
    Round2((unit_price - cost) * quantity - discount, 1)

ProcessRealRow(r) ==
    LET cost == RealCost(r.Unit_Price)
    IN  [transaction_id |-> r.Order_ID, customer_id |-> r.Customer_ID,
         quantity |-> r.Quantity, discount |-> r.Discount_Amount,
         unit_price |-> r.Unit_Price,
         cost |-> Val(cost),
         price |-> Val(r.Unit_Price),
         profit |-> Val(RealProfit(r.Unit_Price, cost, r.Quantity,
                                   r.Discount_Amount)),
         status |-> "Completed"]

\* load_and_process_real_data()
ProcessRealTable(raw) == [i \in 1..Len(raw) |-> ProcessRealRow(raw[i])]

LoadAndProcessRealData ==
    /\ pipe = "raw"
    /\ master' = ProcessRealTable(dataset)
    /\ pipe' = "real"
    /\ UNCHANGED <<customers, products, transactions, dataset, genVars, engineVars,
                   dashVars>>

----------------------------------------------------------------------------
(* generate_sample_data.py *)
(* A random source is a congruential generator on 0..30 (period 30); a draw  *)
(* advances the state and returns it.  Python's random and numpy's random  *)
(* are seeded by the module; Faker() owns a separate random.Random() that  *)
(* the module never seeds, so it starts from operating-system entropy.     *)

PySeed == 42
NpSeed == 42
START_DATE == 0
END_DATE == 3

PyStep(s) == (3 * s + 1) % 31

NpStep(s) == (11 * s + 5) % 31

FkStep(s) == (17 * s + 3) % 31

RECURSIVE PyAfter(_, _)
PyAfter(s, k) == IF k = 0 THEN s ELSE PyAfter(PyStep(s), k - 1)

RECURSIVE NpAfter(_, _)
NpAfter(s, k) == IF k = 0 THEN s ELSE NpAfter(NpStep(s), k - 1)

RECURSIVE FkAfter(_, _)
FkAfter(s, k) == IF k = 0 THEN s ELSE FkAfter(FkStep(s), k - 1)

\* random.seed(42)
PySeeded == PySeed % 31

\* np.random.seed(42)
NpSeeded == NpSeed % 31

\* random.choice(seq) / random.randint(a, b) on the draw d
Choice(seq, d) == seq[(d % Len(seq)) + 1]

RandInt(a, b, d) == a + (d % (b - a + 1))

\* fake.date_between(start_date, end_date) on the draw d
DateBetween(start, end, d) == start + (d % (end - start + 1))

\* Row i (0-based) of generate_customers, from the sources' states py and fk.
GenCustomerRow(i, py, fk) ==
    [customer_id |-> <<"CUST", i + 1>>,
     name |-> FkAfter(fk, 2),
     email |-> FkAfter(fk, 3),
     country |-> FkAfter(fk, 4),
     city |-> FkAfter(fk, 5),
     registration_date |-> DateBetween(START_DATE, END_DATE, FkAfter(fk, 1)),
     age |-> RandInt(18, 70, PyAfter(py, 1)),
     gender |-> Choice(<<"Male", "Female", "Other">>, PyAfter(py, 2))]

\* generate_customers(n): each row takes 2 draws of random and 5 of fake.
GenerateCustomersTable(n, py, fk) ==
    [i \in 1..n |-> GenCustomerRow(i - 1, PyAfter(py, 2 * (i - 1)),
                                   FkAfter(fk, 5 * (i - 1)))]

\* Row i (0-based) of generate_products; prices and costs in cents.
GenProductRow(i, py, fk) ==
    LET price == 1000 + (49000 * PyAfter(py, 2)) \div 31
        cost == RoundHalfEven(price * (4000 + (4500 * PyAfter(py, 3)) \div 31),
                              10000)
    IN  [product_id |-> <<"PROD", i + 1>>,
         product_name |-> FkAfter(fk, 1),
         category |-> Choice(<<"Electronics", "Clothing", "Home & Garden",
                               "Sports", "Books", "Beauty", "Toys">>,
                             PyAfter(py, 1)),
         price |-> price,
         cost |-> cost]

\* generate_products(n): each row takes 3 draws of random and 1 of fake.
GenerateProductsTable(n, py, fk) ==
    [i \in 1..n |-> GenProductRow(i - 1, PyAfter(py, 3 * (i - 1)),
                                  FkAfter(fk, i - 1))]

\* A variant of the sampled row's key that takes the product's key.
TxCustomerIdFromProduct(cust, prod) == prod["product_id"]

\* "customer_id": cust["customer_id"]
TxCustomerId(cust, prod) == cust["customer_id"]

\* random.choices(["Completed", "Cancelled", "Returned"],
\*                weights=[0.85, 0.10, 0.05])[0] on the draw d of 0..30
WeightedStatus(d) ==
    IF 100 * d < 85 * 31 THEN "Completed"
    ELSE IF 100 * d < 95 * 31 THEN "Cancelled"
    ELSE "Returned"

\* One iteration of generate_transactions' loop: the row, and the state of
\* random after it (the discount takes one draw, or two when it is given).
GenTransactionRow(i, cs, ps, py, np, fk) ==
    LET cust == cs[(NpAfter(np, 1) % Len(cs)) + 1]
        prod == ps[(NpAfter(np, 2) % Len(ps)) + 1]
        quantity == RandInt(1, 5, PyAfter(py, 1))
        tx_date == DateBetween(cust.registration_date, END_DATE, FkAfter(fk, 1))
        total_amount == prod.price * quantity
        given == 10 * PyAfter(py, 2) > 7 * 31
        k == IF given THEN 3 ELSE 2
        discount == IF given
                    THEN RoundHalfEven(3 * PyAfter(py, 3) * total_amount, 310)
                    ELSE 0
    IN  [row |-> [transaction_id |-> <<"TXN", i + 1>>,
                  customer_id |-> TxCustomerId(cust, prod),
                  product_id |-> prod["product_id"],
                  transaction_date |-> tx_date,
                  quantity |-> quantity,
                  unit_price |-> prod.price,
                  discount |-> discount,
                  total_amount |-> total_amount - discount,
                  payment_method |->
                      Choice(<<"Credit Card", "PayPal", "Debit Card",
                               "Bank Transfer">>, PyAfter(py, k + 2)),
                  shipping_method |->
                      Choice(<<"Standard", "Express", "Overnight">>,
                             PyAfter(py, k + 3)),
                  status |-> WeightedStatus(PyAfter(py, k + 1))],
         py |-> PyAfter(py, k + 3)]

\* generate_transactions(customers_df, products_df, n), rows i+1..n.
RECURSIVE GenerateTransactionsFrom(_, _, _, _, _, _, _)
GenerateTransactionsFrom(i, n, cs, ps, py, np, fk) ==
    IF i >= n THEN <<>>
    ELSE LET g == GenTransactionRow(i, cs, ps, py, np, fk)
         IN  <<g.row>> \o GenerateTransactionsFrom(i + 1, n, cs, ps, g.py,
                                                   NpAfter(np, 2),
                                                   FkAfter(fk, 1))

\* main(): customers = generate_customers(NUM_CUSTOMERS)
GenerateCustomers(r) ==
    /\ gen[r].pc = "start"
    /\ gen' = [gen EXCEPT
                 ![r].customers = GenerateCustomersTable(sizes.nc, gen[r].py,
                                                         gen[r].fk),
                 ![r].py = PyAfter(gen[r].py, 2 * sizes.nc),
                 ![r].fk = FkAfter(gen[r].fk, 5 * sizes.nc),
                 ![r].pc = "customers"]
    /\ UNCHANGED <<sizes, pipeVars, engineVars, dashVars>>

\* main(): products = generate_products(NUM_PRODUCTS)
GenerateProducts(r) ==
    /\ gen[r].pc = "customers"
    /\ gen' = [gen EXCEPT
                 ![r].products = GenerateProductsTable(sizes.np, gen[r].py,
                                                       gen[r].fk),
                 ![r].py = PyAfter(gen[r].py, 3 * sizes.np),
                 ![r].fk = FkAfter(gen[r].fk, sizes.np),
                 ![r].pc = "products"]
    /\ UNCHANGED <<sizes, pipeVars, engineVars, dashVars>>

\* main(): transactions = generate_transactions(customers, products, n).
\* DataFrame.sample(1) of an empty frame raises ValueError.
GenerateTransactions(r) ==
    /\ gen[r].pc = "products"
    /\ IF sizes.nt > 0 /\ (gen[r].customers = <<>> \/ gen[r].products = <<>>)
       THEN gen' = [gen EXCEPT ![r].pc = "ValueError"]
       ELSE gen' = [gen EXCEPT
                      ![r].transactions =
                          GenerateTransactionsFrom(0, sizes.nt,
                              gen[r].customers, gen[r].products,
                              gen[r].py, gen[r].np, gen[r].fk),
                      ![r].pc = "done"]
    /\ UNCHANGED <<sizes, pipeVars, engineVars, dashVars>>

MaxGenCustomers == 2
MaxGenProducts == 2
MaxGenTransactions == 3

Runs == {1, 2}

\* The states random.Random() may take from the operating system's entropy.
Entropy == {3, 11, 20}

InitGen ==
    /\ sizes \in [nc : 0..MaxGenCustomers, np : 0..MaxGenProducts,
                  nt : 0..MaxGenTransactions]
    /\ gen \in [Runs -> [py : {PySeeded}, np : {NpSeeded}, fk : Entropy,
                         customers : {<<>>}, products : {<<>>},
                         transactions : {<<>>}, pc : {"start"}]]
    /\ customers = <<>>
    /\ products = <<>>
    /\ transactions = <<>>
    /\ dataset = <<>>
    /\ master = <<>>
    /\ pipe = "raw"
    /\ df = {}
    /\ result = NoResult
    /\ DashIdle

NextGen ==
    \E r \in Runs :
        \/ GenerateCustomers(r)
        \/ GenerateProducts(r)
        \/ GenerateTransactions(r)

SpecGen == InitGen /\ [][NextGen]_vars

----------------------------------------------------------------------------
(* src/src/customer_analysis.py : compute_rfm *)
(* A timestamp counts ticks, TicksPerDay of them to the day; Timedelta.days *)
(* is the whole days of a difference.                                      *)

TicksPerDay == 2

Days(delta) == delta \div TicksPerDay

MaxOf(S) == CHOOSE x \in S : \A y \in S : y <= x

MinOf(S) == CHOOSE x \in S : \A y \in S : x <= y

CustomersOf(d) == {r.customer_id : r \in d}

RowsOf(d, c) == {r \in d : r.customer_id = c}

RECURSIVE SumAmount(_)
SumAmount(rows) ==
    IF rows = {} THEN 0
    ELSE LET r == CHOOSE x \in rows : TRUE
         IN  r.total_amount + SumAmount(rows \ {r})

\* df.groupby("customer_id")["transaction_date"].max()
LastPurchase(d, c) == MaxOf({r.transaction_date : r \in RowsOf(d, c)})

\* Recency=("transaction_date", lambda x: (snapshot_date - x.max()).days)
Recency(d, snapshot_date, c) == Days(snapshot_date - LastPurchase(d, c))

\* Frequency=("transaction_id", "nunique")
Frequency(d, c) == Cardinality({r.transaction_id : r \in RowsOf(d, c)})

\* Monetary=("total_amount", "sum")
Monetary(d, c) == SumAmount(RowsOf(d, c))

\* The values of f in ascending order, with repetitions.
SortedValues(f) ==
    LET K == DOMAIN f
    IN  Stored([i \in 1..Cardinality(K) |->
            CHOOSE v \in {f[c] : c \in K} :
                /\ Cardinality({c \in K : f[c] < v}) < i
                /\ i <= Cardinality({c \in K : f[c] <= v})])

\* q times the k/q quantile of the sorted values xs, by linear interpolation
\* between the two nearest order statistics (Series.quantile).
QuantileEdge(xs, q, k) ==
    LET pos == k * (Len(xs) - 1)
        lo == (pos \div q) + 1
        hi == IF lo < Len(xs) THEN lo + 1 ELSE lo
    IN  q * xs[lo] + (pos % q) * (xs[hi] - xs[lo])

\* The bin edges of qcut(..., duplicates='drop'), each times q: the q + 1
\* quantiles with repeated edges dropped.
BinEdges(f, q) == {QuantileEdge(SortedValues(f), q, k) : k \in 0..q}

\* The bin of x among the edges E: bins are closed on the right
\* (searchsorted side="left"), and the lowest edge belongs to the first bin
\* (include_lowest=True).
BinOf(E, q, x) ==
    IF q * x = MinOf(E) THEN 1
    ELSE Cardinality({e \in E : e < q * x})

\* pd.qcut(f, q, labels=labels, duplicates='drop'): raises ValueError ("Bin
\* labels must be one fewer than the number of bin edges") when dropping
\* repeated edges leaves fewer than Len(labels) bins.
Qcut(f, q, labels) ==
    LET E == BinEdges(Stored(f), q)
    IN  IF Len(labels) # Cardinality(E) - 1
        THEN [error |-> "ValueError", score |-> <<>>]
        ELSE [error |-> "none",
              score |-> Stored([c \in DOMAIN f |->
                                  labels[BinOf(E, q, f[c])]])]

\* Series.rank(method="first"): ties ranked in order of appearance, which
\* in the grouped frame is ascending customer_id.
RankFirst(f) ==
    Stored([c \in DOMAIN f |->
        1 + Cardinality({d \in DOMAIN f : f[d] < f[c]})
          + Cardinality({d \in DOMAIN f : f[d] = f[c] /\ d < c})])

\* A variant of the recency labels that scores the oldest customers highest.
RecencyLabelsAscending == <<1, 2, 3, 4, 5>>

RecencyLabels == <<5, 4, 3, 2, 1>>

AscendingLabels == <<1, 2, 3, 4, 5>>

\* A variant of segment_customer whose first threshold is strict.
SegmentCustomerStrict(score) ==
    IF score > 12 THEN "Champions"
    ELSE IF score >= 9 THEN "Loyal"
    ELSE IF score >= 6 THEN "Potential"
    ELSE "At Risk"

\* segment_customer(score)
SegmentCustomer(score) ==
    IF score >= 12 THEN "Champions"
    ELSE IF score >= 9 THEN "Loyal"
    ELSE IF score >= 6 THEN "Potential"
    ELSE "At Risk"

RecencyOf(d) ==
    LET snapshot_date == MaxOf({r.transaction_date : r \in d})
    IN  Stored([c \in CustomersOf(d) |-> Recency(d, snapshot_date, c)])

FrequencyOf(d) == Stored([c \in CustomersOf(d) |-> Frequency(d, c)])

MonetaryOf(d) == Stored([c \in CustomersOf(d) |-> Monetary(d, c)])

\* compute_rfm(df): the three qcut calls in order; the first to raise ends it.
ComputeRfmTable(d) ==
    LET rec == RecencyOf(d)
        fre == FrequencyOf(d)
        mon == MonetaryOf(d)
        R == Qcut(rec, 5, RecencyLabels)
        F == Qcut(RankFirst(fre), 5, AscendingLabels)
        M == Qcut(mon, 5, AscendingLabels)
    IN  IF R.error # "none" \/ F.error # "none" \/ M.error # "none"
        THEN [op |-> "compute_rfm", arg |-> 0, error |-> "ValueError",
              table |-> <<>>]
        ELSE [op |-> "compute_rfm", arg |-> 0, error |-> "none",
              table |-> [c \in CustomersOf(d) |->
                  [Recency |-> rec[c], Frequency |-> fre[c],
                   Monetary |-> mon[c],
                   R_Score |-> R.score[c], F_Score |-> F.score[c],
                   M_Score |-> M.score[c],
                   RFM_Score |-> R.score[c] + F.score[c] + M.score[c],
                   Segment |-> SegmentCustomer(R.score[c] + F.score[c]
                                               + M.score[c])]]]

ComputeRfm ==
    /\ result.op = "none"
    /\ df # {}
    /\ result' = ComputeRfmTable(df)
    /\ UNCHANGED <<df, pipeVars, genVars, dashVars>>

MaxRfmRows == 4

RfmCustomers == {1, 2, 3, 4}

\* The purchases a customer can have made: <<timestamp, total_amount>>.
RfmPurchases ==
    {<<0, 40>>, <<1, 10>>, <<TicksPerDay, 10>>, <<2 * TicksPerDay, 30>>,
     <<3 * TicksPerDay + 1, 20>>, <<3 * TicksPerDay + 1, 40>>}

\* A row of the master table, as far as the customer analytics read it.
Row(c, date, amount) ==
    [transaction_id |-> <<c, date, amount>>, customer_id |-> c,
     transaction_date |-> date, total_amount |-> amount]

\* The subsets of S with at most n elements.
RECURSIVE SubsetsUpTo(_, _)
SubsetsUpTo(S, n) ==
    IF n = 0 THEN {{}}
    ELSE LET P == SubsetsUpTo(S, n - 1)
         IN  P \cup {T \cup {x} : T \in P, x \in S}

RfmTables ==
    SubsetsUpTo({Row(c, p[1], p[2]) : c \in RfmCustomers, p \in RfmPurchases},
                MaxRfmRows) \ {{}}

InitRfm ==
    /\ df \in RfmTables
    /\ result = NoResult
    /\ customers = <<>>
    /\ products = <<>>
    /\ transactions = <<>>
    /\ dataset = <<>>
    /\ master = <<>>
    /\ pipe = "raw"
    /\ sizes = [nc |-> 0, np |-> 0, nt |-> 0]
    /\ gen = <<>>
    /\ DashIdle

NextRfm == ComputeRfm

SpecRfm == InitRfm /\ [][NextRfm]_vars

----------------------------------------------------------------------------
(* src/src/customer_analysis.py : identify_churned_customers *)

\* bins=[0, 30, 60, 90, np.inf]: the finite edges; the last edge is infinite.
ChurnBins == <<0, 30, 60, 90>>

ChurnLabels == <<"Low", "Medium", "High", "Churned">>

\* pd.cut(x, bins=bins + [inf], labels=labels): bins are open on the left and
\* closed on the right (right=True, include_lowest=False); ids counts the
\* edges below x (searchsorted side="left"), a value with no edge below it
\* is in no bin and gets NaN, and no value lies above the infinite edge.
Cut(x, bins, labels) ==
    LET ids == Cardinality({i \in DOMAIN bins : bins[i] < x})
    IN  IF ids = 0 THEN Null ELSE Val(labels[ids])

\* A variant of the churn test that counts the threshold day itself.
IsChurnedInclusive(days, churn_threshold_days) == days >= churn_threshold_days

\* last_purchase["Is_Churned"] = Days_Since_Purchase > churn_threshold_days
IsChurned(days, churn_threshold_days) == days > churn_threshold_days

\* A variant whose last bucket starts at the threshold passed in.
IdentifyChurnedTableByThreshold(d, churn_threshold_days) ==
    LET max_date == MaxOf({r.transaction_date : r \in d})
    IN  [op |-> "identify_churned_customers", arg |-> churn_threshold_days,
         error |-> "none",
         table |-> [c \in CustomersOf(d) |->
            LET days == Days(max_date - LastPurchase(d, c))
            IN  [Last_Purchase_Date |-> LastPurchase(d, c),
                 Days_Since_Purchase |-> days,
                 Is_Churned |-> IsChurned(days, churn_threshold_days),
                 Churn_Risk |-> Cut(days, <<0, 30, 60, churn_threshold_days>>,
                                    ChurnLabels)]]]

\* identify_churned_customers(df, churn_threshold_days)
IdentifyChurnedTable(d, churn_threshold_days) ==
    LET max_date == MaxOf({r.transaction_date : r \in d})
    IN  [op |-> "identify_churned_customers", arg |-> churn_threshold_days,
         error |-> "none",
         table |-> [c \in CustomersOf(d) |->
            LET days == Days(max_date - LastPurchase(d, c))
            IN  [Last_Purchase_Date |-> LastPurchase(d, c),
                 Days_Since_Purchase |-> days,
                 Is_Churned |-> IsChurned(days, churn_threshold_days),
                 Churn_Risk |-> Cut(days, ChurnBins, ChurnLabels)]]]

IdentifyChurnedCustomers(churn_threshold_days) ==
    /\ result.op = "none"
    /\ df # {}
    /\ result' = IdentifyChurnedTable(df, churn_threshold_days)
    /\ UNCHANGED <<df, pipeVars, genVars, dashVars>>

MaxChurnRows == 3

ChurnCustomers == {1, 2, 3}

\* Days on which a purchase can fall, chosen so that the gaps to the last
\* day include 0, 30, 31, 60, 61, 90 and 91; each at two times of day.
ChurnDays == {0, 1, 31, 61, 62, 91, 92}

ChurnDates == {day * TicksPerDay + h : day \in ChurnDays, h \in {0, 1}}

\* The default threshold, and values the dashboard's slider (30..180) gives.
Thresholds == {30, 61, 90}

ChurnTables ==
    SubsetsUpTo({Row(c, t, 10) : c \in ChurnCustomers, t \in ChurnDates},
                MaxChurnRows) \ {{}}

InitChurn ==
    /\ df \in ChurnTables
    /\ result = NoResult
    /\ customers = <<>>
    /\ products = <<>>
    /\ transactions = <<>>
    /\ dataset = <<>>
    /\ master = <<>>
    /\ pipe = "raw"
    /\ sizes = [nc |-> 0, np |-> 0, nt |-> 0]
    /\ gen = <<>>
    /\ DashIdle

NextChurn == \E t \in Thresholds : IdentifyChurnedCustomers(t)

SpecChurn == InitChurn /\ [][NextChurn]_vars

----------------------------------------------------------------------------
(* src/src/customer_analysis.py : cohort_analysis *)
(* Days are counted from 2022-01-01 (day 0, a Saturday); the calendar      *)
(* covers 2022 and 2023, two years of 365 days.                            *)

\* The first days of the months 0..24 (January 2022 to January 2024).
MonthStarts ==
    Stored([m \in 0..24 |->
        <<0, 31, 59, 90, 120, 151, 181, 212, 243, 273, 304, 334, 365, 396,
          424, 455, 485, 516, 546, 577, 608, 638, 669, 699, 730>>[m + 1]])

\* dt.to_period("M") of a day: the calendar month it lies in.
MonthOfDay(day) == Cardinality({m \in 1..24 : MonthStarts[m] <= day})

\* Cohort_Month: the month of the customer's first purchase.
CohortMonth(d, c) ==
    MonthOfDay(Days(MinOf({r.transaction_date : r \in RowsOf(d, c)})))

\* Cohort_Index: (Order_Month - Cohort_Month).n, in months.
CohortIndex(d, r) ==
    MonthOfDay(Days(r.transaction_date)) - CohortMonth(d, r.customer_id)

\* The values of a set of integers, in ascending order.
SortedSeq(S) ==
    Stored([k \in 1..Cardinality(S) |->
        CHOOSE x \in S : Cardinality({y \in S : y < x}) = k - 1])

\* cohort_data.pivot(index="Cohort_Month", columns="Cohort_Index") of the
\* distinct customers per cohort month and index: one row per cohort month,
\* one column per cohort index that occurs (ascending), NaN where a cohort
\* has no customer at an index.
CohortPivot(d) ==
    LET index == {CohortMonth(d, r.customer_id) : r \in d}
        cols == {CohortIndex(d, r) : r \in d}
        nunique(cm, ci) ==
            Cardinality({r.customer_id : r \in
                {x \in d : CohortMonth(d, x.customer_id) = cm
                           /\ CohortIndex(d, x) = ci}})
    IN  [index |-> index,
         columns |-> SortedSeq(cols),
         values |-> Stored([cm \in index |-> Stored([ci \in cols |->
             IF nunique(cm, ci) = 0 THEN Null ELSE Val(nunique(cm, ci))])])]

\* A variant that takes the last column of the pivot as the cohort size.
CohortSizeLastColumn(pivot) ==
    Stored([cm \in pivot.index |->
        pivot.values[cm][pivot.columns[Len(pivot.columns)]]])

\* cohort_size = cohort_pivot.iloc[:, 0]: the first column of the pivot.
CohortSize(pivot) ==
    Stored([cm \in pivot.index |-> pivot.values[cm][pivot.columns[1]]])

\* cohort_analysis(df): works on df.copy() and returns
\* cohort_pivot.divide(cohort_size, axis=0) * 100, each cell kept as an
\* exact fraction, NaN where the count or the size is NaN.
CohortAnalysis ==
    /\ result.op = "none"
    /\ df # {}
    /\ result' =
          [op |-> "cohort_analysis", arg |-> 0, error |-> "none",
           table |->
              LET pivot == CohortPivot(df)
                  size == CohortSize(pivot)
              IN  [index |-> pivot.index,
                   columns |-> pivot.columns,
                   values |-> Stored([cm \in pivot.index |->
                       Stored([ci \in DOMAIN pivot.values[cm] |->
                           IF IsNull(pivot.values[cm][ci]) \/ IsNull(size[cm])
                           THEN Null
                           ELSE Val([num |-> pivot.values[cm][ci][1] * 100,
                                     den |-> size[cm][1]])])])]]
    /\ UNCHANGED <<df, pipeVars, genVars, dashVars>>

MaxCohortRows == 3

\* Up to MaxCohortRows purchases of three customers, late in the day on
\* 1 and 31 January, 1 and 28 February, 1 March and 1 May 2022.
CohortTables ==
    SubsetsUpTo({Row(c, day * TicksPerDay + (TicksPerDay - 1), 10) :
                    c \in {1, 2, 3}, day \in {0, 30, 31, 58, 59, 120}},
                MaxCohortRows) \ {{}}

SpecCohort == EngineStart(CohortTables) /\ [][CohortAnalysis]_vars

----------------------------------------------------------------------------
(* src/src/sales_analysis.py : market_basket_analysis *)
(* Product names are numbered in their sort order.  A quotient of two      *)
(* counts is kept as an exact fraction [num, den].                          *)

\* a >= b for two fractions with positive denominators.
FracGe(a, b) == a.num * b.den >= b.num * a.den

\* A variant that takes the whole table for the basket of a transaction.
UniqueItemsOfTable(d, t) == {r.product_name : r \in d}

\* unique_items = list(set(basket)) of the basket of one transaction_id.
UniqueItems(d, t) == {r.product_name : r \in {x \in d : x.transaction_id = t}}

\* A variant that counts an item once per row it occurs on.
ProductCountPerRow(d, item) == Cardinality({r \in d : r.product_name = item})

\* product_counts[item]: incremented once per basket that holds the item.
ProductCount(d, item) ==
    Cardinality({t \in {r.transaction_id : r \in d} : item \in UniqueItems(d, t)})

\* A variant that asks both confidences to reach the threshold.
KeepsPairBothWays(support, conf_1_to_2, conf_2_to_1, min_support, min_confidence) ==
    /\ FracGe(support, min_support)
    /\ FracGe(conf_1_to_2, min_confidence) /\ FracGe(conf_2_to_1, min_confidence)

\* if support >= min_support: ... if conf_1_to_2 >= min_confidence or
\* conf_2_to_1 >= min_confidence
KeepsPair(support, conf_1_to_2, conf_2_to_1, min_support, min_confidence) ==
    /\ FracGe(support, min_support)
    /\ FracGe(conf_1_to_2, min_confidence) \/ FracGe(conf_2_to_1, min_confidence)

\* The dictionary appended for the pair p of pair_counts.  expected is
\* P(item1) * P(item2) and lift = support / expected if expected > 0 else 0.
Association(d, p) ==
    LET total == Cardinality({r.transaction_id : r \in d})
        pair_count ==
            Cardinality({t \in {r.transaction_id : r \in d} :
                p[1] \in UniqueItems(d, t) /\ p[2] \in UniqueItems(d, t)})
        expected == [num |-> ProductCount(d, p[1]) * ProductCount(d, p[2]),
                     den |-> total * total]
    IN  [Item_1 |-> p[1], Item_2 |-> p[2],
         Support |-> [num |-> pair_count, den |-> total],
         Confidence_1_to_2 |->
            [num |-> pair_count, den |-> ProductCount(d, p[1])],
         Confidence_2_to_1 |->
            [num |-> pair_count, den |-> ProductCount(d, p[2])],
         Lift |-> IF expected.num > 0
                  THEN [num |-> pair_count * expected.den,
                        den |-> total * expected.num]
                  ELSE [num |-> 0, den |-> 1]]

\* associations: of the keys of pair_counts, combinations(sorted(
\* unique_items), 2) of every basket, those that pass both thresholds.
Associations(d, min_support, min_confidence) ==
    LET pairs ==
            {p \in UNION {UniqueItems(d, r.transaction_id)
                          \X UniqueItems(d, r.transaction_id) : r \in d} :
                p[1] < p[2]}
    IN  {a \in {Association(d, p) : p \in pairs} :
            KeepsPair(a.Support, a.Confidence_1_to_2, a.Confidence_2_to_1,
                      min_support, min_confidence)}

\* The orders sort_values("Lift", ascending=False) can leave the rows in:
\* descending Lift, rows of equal Lift in either order.
SortedByLift(rows) ==
    {s \in [1..Cardinality(rows) -> rows] :
        /\ \A i, j \in DOMAIN s : i # j => s[i] # s[j]
        /\ \A i, j \in DOMAIN s : i < j => FracGe(s[i].Lift, s[j].Lift)}

\* market_basket_analysis(df, min_support, min_confidence): the empty table
\* is built with the six columns, a non-empty one from the dictionaries.
MarketBasketAnalysis(min_support, min_confidence) ==
    /\ result.op = "none"
    /\ \E rows \in SortedByLift(Associations(df, min_support, min_confidence)) :
          result' = [op |-> "market_basket_analysis",
                     arg |-> [min_support |-> min_support,
                              min_confidence |-> min_confidence],
                     error |-> "none",
                     table |-> [columns |-> <<"Item_1", "Item_2", "Support",
                                              "Confidence_1_to_2",
                                              "Confidence_2_to_1", "Lift">>,
                                rows |-> rows]]
    /\ UNCHANGED <<df, pipeVars, genVars, dashVars>>

MaxBasketRows == 4

\* Ten transactions: items 1 and 2 together in three of them (item 1 on two
\* lines of the first), each of the two alone in two more, item 3 in the
\* rest, once together with item 4.
BasketExample ==
    {[transaction_id |-> t, product_name |-> i, line |-> 1] :
        t \in 1..3, i \in {1, 2}}
    \cup {[transaction_id |-> 1, product_name |-> 1, line |-> 2]}
    \cup {[transaction_id |-> t, product_name |-> 1, line |-> 1] : t \in 4..5}
    \cup {[transaction_id |-> t, product_name |-> 2, line |-> 1] : t \in 6..7}
    \cup {[transaction_id |-> t, product_name |-> 3, line |-> 1] : t \in 8..10}
    \cup {[transaction_id |-> 8, product_name |-> 4, line |-> 1]}

\* Up to MaxBasketRows rows of three transactions and three items, item 1
\* possibly on a second line of a transaction; and the ten transactions.
BasketTables ==
    SubsetsUpTo(
        {[transaction_id |-> t, product_name |-> i, line |-> 1] :
            t \in {1, 2, 3}, i \in {1, 2, 3}}
        \cup {[transaction_id |-> t, product_name |-> 1, line |-> 2] :
                t \in {1, 2, 3}},
        MaxBasketRows)
    \cup {BasketExample}

\* The calls: the defaults min_support=0.01 and min_confidence=0.3, and
\* higher thresholds that some pairs do not reach.
SpecBasket ==
    /\ EngineStart(BasketTables)
    /\ [][\E ms \in {[num |-> 1, den |-> 100], [num |-> 1, den |-> 2]},
             mc \in {[num |-> 3, den |-> 10], [num |-> 6, den |-> 10],
                     [num |-> 1, den |-> 1]} :
             MarketBasketAnalysis(ms, mc)]_vars

----------------------------------------------------------------------------
(* src/src/sales_analysis.py : arima_sales_forecast and                    *)
(* exponential_smoothing_forecast                                          *)
(* A Date is a day number (midnight of the day).  Day 0 is a Saturday, so   *)
(* the Sundays are the days d with d % 7 = 1.  The fitting of a model is    *)
(* the work of statsmodels: it succeeds or raises.                          *)

MinArimaPoints == 10

\* resample(freq): the label of the bin a day falls in.  'M' labels a month
\* by its last day, 'W' a week (Monday to Sunday) by its Sunday.
ResampleLabel(freq, day) ==
    CASE freq = "M" -> MonthStarts[MonthOfDay(day) + 1] - 1
      [] freq = "W" -> day + ((8 - (day % 7)) % 7)
      [] OTHER -> day

\* revenue_series: resample(freq)["total_amount"].sum(), of which the bins
\* with a sum > 0 are kept, in date order (a bin without rows sums to 0 and
\* is removed as well).
RevenueSeries(d, freq) ==
    LET revenue(label) ==
            SumAmount({r \in d :
                ResampleLabel(freq, Days(r.transaction_date)) = label})
        labels == {ResampleLabel(freq, Days(r.transaction_date)) : r \in d}
        dates == SortedSeq({l \in labels : revenue(l) > 0})
    IN  Stored([i \in DOMAIN dates |->
            [Date |-> dates[i], Revenue |-> revenue(dates[i])]])

\* pd.date_range(start=start, periods=periods, freq=alias).  A start that is
\* not on the frequency is rolled forward to the next date that is: 'MS' to
\* the first day of a month, 'W' to a Sunday.
DateRange(start, periods, alias) ==
    LET first ==
            CASE alias = "MS" ->
                    IF start = MonthStarts[MonthOfDay(start)] THEN start
                    ELSE MonthStarts[MonthOfDay(start) + 1]
              [] alias = "W" -> start + ((8 - (start % 7)) % 7)
              [] OTHER -> start
    IN  [i \in 1..periods |->
            CASE alias = "MS" -> MonthStarts[MonthOfDay(first) + i - 1]
              [] alias = "W" -> first + 7 * (i - 1)
              [] OTHER -> first + (i - 1)]

\* forecast_dates = pd.date_range(start=last_date, periods=periods + 1,
\*                                freq='MS' | 'W' | 'D')[1:]
ForecastDates(last_date, periods, freq) ==
    Tail(DateRange(last_date, periods + 1,
                   CASE freq = "M" -> "MS" [] freq = "W" -> "W" [] OTHER -> "D"))

\* A variant of the handler that lets the exception reach the caller.
ExceptReraise(e) == [error |-> e, table |-> <<>>]

\* except Exception as e: print(...); return None, None, None
ArimaExcept(e) ==
    [error |-> "none",
     table |-> [historical |-> Null, forecast |-> Null, summary |-> Null]]

\* arima_sales_forecast(df, freq, periods): set_index raises KeyError
\* without the column, fewer than 10 periods raise ValueError, the fit may
\* raise; forecast_df has one row per forecast date.
ArimaSalesForecast(freq, periods, fit) ==
    /\ result.op = "none"
    /\ LET revenue_series == RevenueSeries(df, freq)
           forecast_dates ==
               ForecastDates(revenue_series[Len(revenue_series)].Date,
                             periods, freq)
           out ==
               IF \E r \in df : "transaction_date" \notin DOMAIN r
               THEN ArimaExcept("KeyError")
               ELSE IF Len(revenue_series) < MinArimaPoints
               THEN ArimaExcept("ValueError")
               ELSE IF fit # "ok" THEN ArimaExcept(fit)
               ELSE [error |-> "none",
                     table |-> [historical |-> Val(revenue_series),
                                forecast |-> Val([i \in DOMAIN forecast_dates |->
                                    [Date |-> forecast_dates[i],
                                     Type |-> "Forecast"]]),
                                summary |-> Val([Observations |->
                                                    Len(revenue_series)])]]
       IN  result' = [op |-> "arima_sales_forecast",
                      arg |-> [freq |-> freq, periods |-> periods, fit |-> fit],
                      error |-> out.error, table |-> out.table]
    /\ UNCHANGED <<df, pipeVars, genVars, dashVars>>

\* exponential_smoothing_forecast(df, freq, periods): the same without the
\* minimum of 10 periods; on an empty series revenue_series.index[-1] raises
\* if nothing did before.  except Exception: return None, None.
ExponentialSmoothingForecast(freq, periods, fit) ==
    /\ result.op = "none"
    /\ LET revenue_series == RevenueSeries(df, freq)
           forecast_dates ==
               ForecastDates(revenue_series[Len(revenue_series)].Date,
                             periods, freq)
           none == [historical |-> Null, forecast |-> Null]
       IN  result' =
              [op |-> "exponential_smoothing_forecast",
               arg |-> [freq |-> freq, periods |-> periods, fit |-> fit],
               error |-> "none",
               table |->
                  IF \E r \in df : "transaction_date" \notin DOMAIN r
                  THEN none
                  ELSE IF fit # "ok" \/ Len(revenue_series) = 0 THEN none
                  ELSE [historical |-> Val(revenue_series),
                        forecast |-> Val([i \in DOMAIN forecast_dates |->
                            [Date |-> forecast_dates[i],
                             Type |-> "Forecast"]])]]
    /\ UNCHANGED <<df, pipeVars, genVars, dashVars>>

MaxHistory == 11

MaxPeriods == 3

\* One purchase late in the day in each of n consecutive days, weeks or
\* months from the day start on: paid for in all of them, in all but the
\* last, or in none.
HistoryTable(freq, start, n, paid) ==
    LET days ==
            CASE freq = "M" ->
                    {MonthStarts[MonthOfDay(start) + i]
                        + (start - MonthStarts[MonthOfDay(start)]) : i \in 0..(n - 1)}
              [] freq = "W" -> {start + 7 * i : i \in 0..(n - 1)}
              [] OTHER -> {start + i : i \in 0..(n - 1)}
    IN  {Row(1, day * TicksPerDay + (TicksPerDay - 1),
             IF paid = "all" \/ (paid = "not last" /\ day # MaxOf(days))
             THEN 10 ELSE 0) : day \in days}

\* Histories of up to MaxHistory periods that start on 1, 2 or 17 January
\* or on 1 or 20 February 2022 (a Saturday, a Sunday, a Monday, a Tuesday, a
\* Sunday), and a table that has no transaction_date column.
ForecastTables ==
    {HistoryTable(f, s, n, paid) :
        f \in {"M", "W", "D"}, s \in {0, 1, 16, 31, 50}, n \in 0..MaxHistory,
        paid \in {"all", "not last", "none"}}
    \cup {{[transaction_id |-> 1, customer_id |-> 1, total_amount |-> 10]}}

SpecForecast ==
    /\ EngineStart(ForecastTables)
    /\ [][\E freq \in {"M", "W", "D"}, periods \in 1..MaxPeriods,
             fit \in {"ok", "LinAlgError"} :
             \/ ArimaSalesForecast(freq, periods, fit)
             \/ ExponentialSmoothingForecast(freq, periods, fit)]_vars

----------------------------------------------------------------------------
(* dashboard.py : one session of the Streamlit script *)
(* Every interaction runs the script from its first line with the values   *)
(* the widgets hold; a widget that is not built in a run loses its value.   *)

\* A variant without the cache: no call finds a stored table.
CacheLookupNever(c) == Null

\* @st.cache_data: the table stored by an earlier call of load_data that
\* returned, handed out as a copy.
CacheLookup(c) == c

\* A variant of the handler that stops without showing the error.
OnFileNotFoundSilent(c) ==
    [halted |-> TRUE, error |-> "none", df |-> Null, cache |-> c, read |-> 0]

\* except FileNotFoundError: st.error(...); st.stop().  Nothing is stored in
\* the cache, the run ends here.
OnFileNotFound(c) ==
    [halted |-> TRUE,
     error |-> "Master dataset not found!  Please run: python src/real_data_processing.py",
     df |-> Null, cache |-> c, read |-> 0]

\* df = load_data(): the cached table, or load_master(), whose pd.read_csv
\* raises FileNotFoundError when the file f is missing.
LoadData(f, c) ==
    IF CacheLookup(c) # Null
    THEN [halted |-> FALSE, error |-> "none", df |-> CacheLookup(c),
          cache |-> c, read |-> 0]
    ELSE IF f = Null THEN OnFileNotFound(c)
    ELSE [halted |-> FALSE, error |-> "none", df |-> f, cache |-> f, read |-> 1]

\* The sidebar: the bounds of the date input and the options of the select
\* boxes, ['All'] + sorted(df[col].dropna().unique().tolist()).
Sidebar(d) ==
    LET options(col) ==
            {"All"} \cup {r[col][1] : r \in {x \in d : ~IsNull(x[col])}}
    IN  [min_date |-> Days(MinOf({r.transaction_date : r \in d})),
         max_date |-> Days(MaxOf({r.transaction_date : r \in d})),
         categories |-> options("category"),
         cities |-> options("city"),
         genders |-> options("gender"),
         devices |-> options("device_type")]

\* A variant that compares the timestamp itself with midnight of end_date.
InDateRangeMidnight(date, start_date, end_date) ==
    date >= start_date * TicksPerDay /\ date <= end_date * TicksPerDay

\* (dt.date >= start_date) & (dt.date <= end_date)
InDateRange(date, start_date, end_date) ==
    Days(date) >= start_date /\ Days(date) <= end_date

\* if selected != 'All': keep the rows whose column equals the selection.
FilterEqual(d, col, selected) ==
    IF selected # "All" THEN {r \in d : r[col] = Val(selected)} ELSE d

\* A variant that reads a single picked date as a range of one day.
ApplyFiltersSingleDay(d, w) ==
    FilterEqual(
        FilterEqual(
            FilterEqual(
                FilterEqual(
                    {r \in d : InDateRange(r.transaction_date, w.date_range[1],
                                           w.date_range[Len(w.date_range)])},
                    "category", w.selected_category),
                "city", w.selected_city),
            "gender", w.selected_gender),
        "device_type", w.selected_device)

\* filtered_df: df.copy() narrowed by the date range, if the date input
\* holds two dates, and then by the four selections in turn.
ApplyFilters(d, w) ==
    LET dated ==
            IF Len(w.date_range) = 2
            THEN {r \in d : InDateRange(r.transaction_date, w.date_range[1],
                                        w.date_range[2])}
            ELSE d
    IN  FilterEqual(
            FilterEqual(
                FilterEqual(
                    FilterEqual(dated, "category", w.selected_category),
                    "city", w.selected_city),
                "gender", w.selected_gender),
            "device_type", w.selected_device)

\* One run of the script with the widget values w (Null: none held yet, the
\* widgets are built with their defaults).
Script(f, c, w) ==
    LET ld == LoadData(f, c)
        sb == Sidebar(ld.df[1])
        values ==
            IF w = Null
            THEN [page |-> "Overview",
                  date_range |-> <<sb.min_date, sb.max_date>>,
                  selected_category |-> "All", selected_city |-> "All",
                  selected_gender |-> "All", selected_device |-> "All"]
            ELSE w[1]
    IN  IF ld.halted
        THEN [cache |-> ld.cache, read |-> ld.read,
              run |-> [halted |-> TRUE, error |-> ld.error, sidebar |-> Null,
                       widgets |-> Null, df |-> Null, filtered_df |-> Null,
                       page |-> "none"]]
        ELSE IF \E r \in ld.df[1] : "device_type" \notin DOMAIN r
        THEN \* df['device_type'] raises KeyError while the sidebar is being
             \* built; nothing catches it and the run ends there.  (The
             \* widgets built before the exception are not followed.)
             [cache |-> ld.cache, read |-> ld.read,
              run |-> [halted |-> FALSE, error |-> "KeyError: 'device_type'",
                       sidebar |-> Null, widgets |-> Null, df |-> ld.df,
                       filtered_df |-> Null, page |-> "none"]]
        ELSE [cache |-> ld.cache, read |-> ld.read,
              run |-> [halted |-> FALSE, error |-> "none",
                       sidebar |-> Val(sb),
                       widgets |-> Val(values),
                       df |-> ld.df,
                       filtered_df |-> Val(ApplyFilters(ld.df[1], values)),
                       page |-> values.page]]

\* The values the user can give a widget of the sidebar.  The date input
\* holds one date while a range is being picked, two when it is complete.
WidgetValues(sb, widget) ==
    CASE widget = "page" ->
            {"Overview", "Customer Insights", "Advanced Analytics"}
      [] widget = "date_range" ->
            {<<s>> : s \in sb.min_date..sb.max_date}
            \cup {p \in (sb.min_date..sb.max_date)
                           \X (sb.min_date..sb.max_date) : p[1] <= p[2]}
      [] widget = "selected_category" -> sb.categories
      [] widget = "selected_city" -> sb.cities
      [] widget = "selected_gender" -> sb.genders
      [] widget = "selected_device" -> sb.devices

\* The browser opens or reloads the page: the script runs with the widget
\* values of the session.
RunScript ==
    /\ cache' = Script(file, cache, run.widgets).cache
    /\ reads' = reads + Script(file, cache, run.widgets).read
    /\ run' = Script(file, cache, run.widgets).run
    /\ UNCHANGED <<file, pipeVars, genVars, engineVars>>

\* The user gives one widget of the sidebar another value: the script runs
\* again.
Interact(widget) ==
    /\ ~IsNull(run.widgets)
    /\ \E value \in WidgetValues(run.sidebar[1], widget) :
          /\ value # run.widgets[1][widget]
          /\ LET s == Script(file, cache,
                             Val([run.widgets[1] EXCEPT ![widget] = value]))
             IN  /\ cache' = s.cache
                 /\ reads' = reads + s.read
                 /\ run' = s.run
    /\ UNCHANGED <<file, pipeVars, genVars, engineVars>>

\* data/processed/master_dataset.csv is written by a processing pipeline
\* (f is the table) or deleted (f is Null).
FileChanges(f) ==
    /\ file # f
    /\ file' = f
    /\ UNCHANGED <<cache, reads, run, pipeVars, genVars, engineVars>>

MaxDashRows == 2

\* The rows a master table can hold, as far as the sidebar and the filters
\* read them: transactions on three days, two of them late in the day, one
\* without a category.
DashRows ==
    {[transaction_id |-> 1, transaction_date |-> 0,
      category |-> Val("Books"), city |-> Val("Agra"), gender |-> Val("F"),
      device_type |-> Val("Desktop")],
     [transaction_id |-> 2, transaction_date |-> 2 * TicksPerDay - 1,
      category |-> Val("Books"), city |-> Val("Pune"), gender |-> Val("M"),
      device_type |-> Val("Mobile")],
     [transaction_id |-> 3, transaction_date |-> TicksPerDay,
      category |-> Val("Toys"), city |-> Val("Agra"), gender |-> Val("M"),
      device_type |-> Val("Mobile")],
     [transaction_id |-> 4, transaction_date |-> 3 * TicksPerDay - 1,
      category |-> Val("Toys"), city |-> Val("Agra"), gender |-> Val("F"),
      device_type |-> Val("Desktop")],
     [transaction_id |-> 5, transaction_date |-> 2 * TicksPerDay,
      category |-> Null, city |-> Val("Pune"), gender |-> Val("F"),
      device_type |-> Val("Mobile")]}

\* A session starts with the file missing, holding a real-schema table of up
\* to MaxDashRows rows or holding a table of the synthetic shape (without the
\* behavioural columns), and nothing cached.
InitDash ==
    /\ file \in {Null}
                 \cup {Val(t) : t \in SubsetsUpTo(DashRows, MaxDashRows) \ {{}}}
                 \cup {Val({[c \in DOMAIN r \ {"device_type"} |-> r[c]] :
                              r \in {x \in DashRows : x.transaction_id <= 2}})}
    /\ cache = Null
    /\ reads = 0
    /\ run = NoRun
    /\ df = {}
    /\ result = NoResult
    /\ customers = <<>>
    /\ products = <<>>
    /\ transactions = <<>>
    /\ dataset = <<>>
    /\ master = <<>>
    /\ pipe = "raw"
    /\ sizes = [nc |-> 0, np |-> 0, nt |-> 0]
    /\ gen = <<>>

\* During a session a pipeline can leave one of two tables on disk.
SpecDash ==
    /\ InitDash
    /\ [][\/ RunScript
          \/ \E widget \in {"page", "date_range", "selected_category",
                            "selected_city", "selected_gender",
                            "selected_device"} : Interact(widget)
          \/ \E f \in {Null, Val({r \in DashRows : r.transaction_id <= 2}),
                       Val({r \in DashRows : r.transaction_id = 4})} :
                FileChanges(f)]_vars

----------------------------------------------------------------------------
(* src/src/real_data_analysis.py : session_behavior_analysis and           *)
(* delivery_satisfaction_analysis                                           *)
(* Of the statistics of a segment the counts and the revenue are kept; the  *)
(* rounded averages are left out.                                           *)

\* pd.cut(x, bins=bins, labels=labels) with a finite last edge: the bins are
\* open on the left and closed on the right, and a value at or below the
\* first edge or above the last one is in no bin and gets NaN.
CutWithin(x, bins, labels) ==
    LET ids == Cardinality({i \in DOMAIN bins : bins[i] < x})
    IN  IF ids = 0 \/ ids = Len(bins) THEN Null ELSE Val(labels[ids])

\* df[col] = pd.cut(df[source], bins=bins, labels=labels): the column is
\* written into the table the caller passed.
WithSegment(d, col, source, bins, labels) ==
    {[f \in DOMAIN r \cup {col} |->
        IF f = col THEN CutWithin(r[source], bins, labels) ELSE r[f]] : r \in d}

\* df.groupby(col).agg(...) over a categorical column: one row per label,
\* rows without a label in none of them.
SegmentStats(d, col, labels) ==
    [i \in DOMAIN labels |->
        [segment |-> labels[i],
         Transactions |-> Cardinality({r \in d : r[col] = Val(labels[i])}),
         Total_Revenue |-> SumAmount({r \in d : r[col] = Val(labels[i])})]]

SessionBehaviorAnalysis ==
    LET labels == <<"Quick (0-5m)", "Medium (5-15m)", "Long (15-30m)",
                    "Very Long (30m+)">>
        segmented == WithSegment(df, "session_segment", "session_duration",
                                 <<0, 5, 15, 30, 120>>, labels)
    IN  /\ result.op = "none"
        /\ df' = segmented
        /\ result' = [op |-> "session_behavior_analysis", arg |-> 0,
                      error |-> "none",
                      table |-> SegmentStats(segmented, "session_segment",
                                             labels)]
        /\ UNCHANGED <<pipeVars, genVars, dashVars>>

DeliverySatisfactionAnalysis ==
    LET labels == <<"Fast (1-3d)", "Standard (4-7d)", "Slow (8-14d)",
                    "Very Slow (15d+)">>
        segmented == WithSegment(df, "delivery_segment", "delivery_days",
                                 <<0, 3, 7, 14, 30>>, labels)
    IN  /\ result.op = "none"
        /\ df' = segmented
        /\ result' = [op |-> "delivery_satisfaction_analysis", arg |-> 0,
                      error |-> "none",
                      table |-> SegmentStats(segmented, "delivery_segment",
                                             labels)]
        /\ UNCHANGED <<pipeVars, genVars, dashVars>>

MaxRealRows == 2

\* Up to MaxRealRows rows of the real-schema master table, as far as these
\* analyses and cohort_analysis read it: three transactions a month apart,
\* sessions of 0, 5, 6 or 121 minutes, deliveries of 0, 3 or 15 days.
RealTables ==
    SubsetsUpTo(
        {[transaction_id |-> id, customer_id |-> (id % 2) + 1,
          transaction_date |-> id * 31 * TicksPerDay, total_amount |-> 10 * id,
          session_duration |-> sd, delivery_days |-> dd] :
            id \in 1..3, sd \in {0, 5, 6, 121}, dd \in {0, 3, 15}},
        MaxRealRows) \ {{}}

SpecReal ==
    /\ EngineStart(RealTables)
    /\ [][\/ SessionBehaviorAnalysis
          \/ DeliverySatisfactionAnalysis
          \/ CohortAnalysis]_vars

----------------------------------------------------------------------------
(* src/src/customer_analysis.py : customer_purchase_patterns *)
(* Of the columns of the result Avg_Days_Between_Purchases is kept, as an   *)
(* exact fraction; the favourites, the mean and deviation of the amounts    *)
(* and the item total are left out.                                         *)

\* patterns = df.groupby("customer_id").agg({"transaction_date": lambda x:
\* (x.max() - x.min()).days / len(x) if len(x) > 1 else 0, ...})
CustomerPurchasePatterns ==
    /\ result.op = "none"
    /\ result' =
          [op |-> "customer_purchase_patterns", arg |-> 0, error |-> "none",
           table |-> [c \in CustomersOf(df) |->
              LET x == {r.transaction_date : r \in RowsOf(df, c)}
                  len == Cardinality(RowsOf(df, c))
              IN  [Avg_Days_Between_Purchases |->
                      IF len > 1
                      THEN [num |-> Days(MaxOf(x) - MinOf(x)), den |-> len]
                      ELSE [num |-> 0, den |-> 1]]]]
    /\ UNCHANGED <<df, pipeVars, genVars, dashVars>>

\* The calls are made on the tables of the churn analysis: up to
\* MaxChurnRows purchases of up to three customers.
SpecPatterns ==
    EngineStart(ChurnTables) /\ [][CustomerPurchasePatterns]_vars

----------------------------------------------------------------------------
(* src/src/real_data_analysis.py : returning_customer_analysis *)
(* Of the statistics of a group the count and the revenue are kept.         *)

\* customer_type_stats = df.groupby('is_returning').agg(...): one row per
\* value of the flag that occurs, False before True.  Assigning the index
\* ['New Customer', 'Returning Customer'] gives the rows these labels in
\* order, and raises ValueError (length mismatch) unless there are two rows.
ReturningCustomerAnalysis ==
    LET stats(flag) ==
            [Transactions |-> Cardinality({r \in df : r.is_returning = flag}),
             Total_Revenue |-> SumAmount({r \in df : r.is_returning = flag})]
        groups ==
            (IF \E r \in df : ~r.is_returning THEN <<stats(FALSE)>> ELSE <<>>)
            \o (IF \E r \in df : r.is_returning THEN <<stats(TRUE)>> ELSE <<>>)
        labels == <<"New Customer", "Returning Customer">>
    IN  /\ result.op = "none"
        /\ result' =
              IF Len(groups) # Len(labels)
              THEN [op |-> "returning_customer_analysis", arg |-> 0,
                    error |-> "ValueError", table |-> <<>>]
              ELSE [op |-> "returning_customer_analysis", arg |-> 0,
                    error |-> "none",
                    table |-> [i \in DOMAIN groups |->
                        [index |-> labels[i],
                         Transactions |-> groups[i].Transactions,
                         Total_Revenue |-> groups[i].Total_Revenue]]]
        /\ UNCHANGED <<df, pipeVars, genVars, dashVars>>

MaxReturningRows == 3

\* The calls are made on up to MaxReturningRows of five transactions, each
\* of a new or of a returning customer.
SpecReturning ==
    /\ EngineStart(
          {t \in SubsetsUpTo(
                    {[transaction_id |-> id, is_returning |-> flag,
                      total_amount |-> 10 * id] :
                        id \in 1..5, flag \in BOOLEAN},
                    MaxReturningRows) \ {{}} :
              \A a \in t : \A b \in t :
                  a.transaction_id = b.transaction_id => a = b})
    /\ [][ReturningCustomerAnalysis]_vars

----------------------------------------------------------------------------
(* src/dashboard.py and src/src/sales_analysis.py : the Product             *)
(* Profitability tab of the Sales Analysis page                             *)
(* df is the filtered table the page works on.  Of product_perf the columns *)
(* Revenue and Profit are kept.  The bar chart orders its bars itself        *)
(* (categoryorder 'total ascending'), so what it shows is a set of rows.     *)

\* product_perf = product_profitability_analysis(filtered_df): the sums per
\* product_name, returned sorted by Profit, descending.
\* top_products_df = product_perf.head(top_n): the first top_n rows of that
\* order; among products of equal Profit the sort may leave any first.
\* The chart is titled f'Top {top_n} Products by Revenue'.
ProductProfitabilityTab(top_n) ==
    LET names == {r.product_name : r \in df}
        product_perf ==
            [p \in names |->
                [product_name |-> p,
                 Revenue |-> SumAmount({r \in df : r.product_name = p}),
                 Profit |-> SumAmount(
                     {[transaction_id |-> r.transaction_id,
                       total_amount |-> r.profit] :
                         r \in {x \in df : x.product_name = p}})]]
        shown == IF Cardinality(names) < top_n THEN Cardinality(names)
                 ELSE top_n
    IN  /\ result.op = "none"
        /\ \E head \in SUBSET names :
              /\ Cardinality(head) = shown
              /\ \A p \in head : \A q \in names \ head :
                    product_perf[p].Profit >= product_perf[q].Profit
              /\ result' = [op |-> "product_profitability_tab",
                            arg |-> top_n, error |-> "none",
                            table |-> {product_perf[p] : p \in head}]
        /\ UNCHANGED <<df, pipeVars, genVars, dashVars>>

MaxChartProducts == 6

\* The filtered tables: each of up to MaxChartProducts products is absent or
\* sold in one transaction, with a high revenue and a low profit or the
\* other way round, and the first product possibly in a second transaction.
\* The slider (5 to 50) is left at its default 10 or set to 5.
SpecProductChart ==
    /\ EngineStart(
          {{[transaction_id |-> p, product_name |-> p,
             total_amount |-> 10 * sale[p], profit |-> 4 - sale[p]] :
                p \in {x \in 1..MaxChartProducts : sale[x] # 0}}
           \cup extra :
              sale \in [1..MaxChartProducts -> 0..3],
              extra \in {{}, {[transaction_id |-> 0, product_name |-> 1,
                               total_amount |-> 10, profit |-> 3]}}}
          \ {{}})
    /\ [][\E top_n \in {5, 10} : ProductProfitabilityTab(top_n)]_vars

----------------------------------------------------------------------------
(* src/dashboard.py : the Customer Insights page *)
(* df is the filtered table the page works on.  The script renders the      *)
(* four tabs one after the other; a panel is recorded by its name once it    *)
(* is rendered.  An exception that no try block catches ends the run of the  *)
(* script: Streamlit shows it in place and renders nothing after it.         *)

\* elif page == "Customer Insights": tab1 (overview), tab2 with rfm_df =
\* compute_rfm(filtered_df) outside any try block, tab3 (lifetime value),
\* tab4 with the churn panel and, inside try ... except Exception:
\* st.warning(...), the cohort panel.  cohort_analysis returns a table for
\* every non-empty df (CohortAnalysis), so the try block runs to its end.
CustomerInsightsPage ==
    /\ result.op = "none"
    /\ df # {}
    /\ result' =
          IF ComputeRfmTable(df).error # "none"
          THEN [op |-> "customer_insights_page", arg |-> 0,
                error |-> ComputeRfmTable(df).error,
                table |-> <<"Customer Overview">>]
          ELSE [op |-> "customer_insights_page", arg |-> 0, error |-> "none",
                table |-> <<"Customer Overview", "RFM Customer Segmentation",
                            "Customer Lifetime Value", "Churn Analysis",
                            "Cohort Retention Analysis">>]
    /\ UNCHANGED <<df, pipeVars, genVars, dashVars>>

\* The page is rendered on the tables of the RFM analysis: up to MaxRfmRows
\* purchases of up to four customers.
SpecInsights == EngineStart(RfmTables) /\ [][CustomerInsightsPage]_vars

----------------------------------------------------------------------------
(* src/src/real_data_processing.py : main *)
(* pipe records how the run ended: "real" when it reached its last line,    *)
(* or the except branch that caught its exception.                          *)

\* main(): load_and_process_real_data(), whose pd.read_csv raises
\* FileNotFoundError when DATASET.csv is missing; save_processed_data(df),
\* which first writes master_dataset.csv with df.to_csv and then prints the
\* summary, where ', '.join(df['city'].unique()) raises TypeError when a row
\* has no City (NaN is not a string); then the sample.  Both except
\* branches print and return.
RealMain ==
    /\ pipe = "raw"
    /\ IF dataset = <<>>
       THEN /\ pipe' = "FileNotFoundError"
            /\ UNCHANGED <<master, file>>
       ELSE /\ master' = ProcessRealTable(dataset)
            /\ file' = Val(ProcessRealTable(dataset))
            /\ pipe' = IF \E i \in DOMAIN dataset : IsNull(dataset[i].City)
                       THEN "Exception"
                       ELSE "real"
    /\ UNCHANGED <<customers, products, transactions, dataset, genVars,
                   engineVars, cache, reads, run>>

MaxMainRows == 2

\* A run starts with no master_dataset.csv on disk and with DATASET.csv
\* missing or holding up to MaxMainRows orders, an order possibly without
\* a City.
InitRealMain ==
    /\ dataset \in BoundedSeq([Order_ID : {1, 2}, Customer_ID : {1},
                               Unit_Price : {10005, 12345},
                               Quantity : {1, 2}, Discount_Amount : {0},
                               City : {Val("Agra"), Null}], MaxMainRows)
    /\ customers = <<>> /\ products = <<>> /\ transactions = <<>>
    /\ master = <<>> /\ pipe = "raw"
    /\ sizes = [nc |-> 0, np |-> 0, nt |-> 0] /\ gen = <<>>
    /\ df = {} /\ result = NoResult
    /\ DashIdle

SpecRealMain == InitRealMain /\ [][RealMain]_vars

----------------------------------------------------------------------------
(* Inputs of the pipelines *)

MaxCustomers == 2
MaxProducts == 2
MaxTransactions == 2
MaxProfitRows == 2

Keys == {1, 2}

Statuses == {"Completed", "Cancelled", "Returned"}

\* A table of the rows attr[i], each with its row number (the frame's index).
Indexed(attrs) ==
    [i \in 1..Len(attrs) |-> [f \in DOMAIN attrs[i] \cup {"row"} |->
                                IF f = "row" THEN i ELSE attrs[i][f]]]

\* Like Indexed, with the row number as the transaction_id.
Numbered(attrs) ==
    [i \in 1..Len(attrs) |-> [f \in DOMAIN attrs[i] \cup {"transaction_id"} |->
                                IF f = "transaction_id" THEN i ELSE attrs[i][f]]]

RawCustomerTables ==
    {Indexed(a) : a \in BoundedSeq([customer_id : Keys], MaxCustomers)}

RawProductTables ==
    {Indexed(a) :
       a \in BoundedSeq([product_id : Keys, price : {10000}, cost : {6000}],
                        MaxProducts)}

RawTransactionTables ==
    {Numbered(a) :
       a \in BoundedSeq([customer_id : Keys, product_id : Keys,
                         quantity : {2}, discount : {2500},
                         status : Statuses], MaxTransactions)}

InitMerge ==
    /\ customers \in RawCustomerTables
    /\ products \in RawProductTables
    /\ transactions \in RawTransactionTables
    /\ dataset = <<>>
    /\ sizes = [nc |-> 0, np |-> 0, nt |-> 0]
    /\ gen = <<>>
    /\ df = {}
    /\ result = NoResult
    /\ master = <<>>
    /\ pipe = "raw"
    /\ DashIdle

NextMerge == CleanAndMerge

SpecMerge == InitMerge /\ [][NextMerge]_vars

ProfitProductTables ==
    {Indexed(<<a>>) :
       a \in [product_id : {1}, price : {10000, 19990, 49999},
              cost : {4000, 16990}]}

ProfitTransactionTables ==
    {Numbered(a) :
       a \in BoundedSeq([customer_id : {1}, product_id : Keys,
                         quantity : {1, 3, 5}, discount : {0, 1230},
                         status : {"Completed"}], MaxProfitRows) \ {<<>>}}

RealDatasets ==
    BoundedSeq([Order_ID : {1}, Customer_ID : {1},
                Unit_Price : {10005, 12345, 19990, 33333},
                Quantity : {1, 2, 3},
                Discount_Amount : {0, 2505, 50000}], MaxProfitRows) \ {<<>>}

\* Either the raw synthetic tables or the real dataset file is present.
InitProfit ==
    /\ customers = <<>>
    /\ \/ /\ products \in ProfitProductTables
          /\ transactions \in ProfitTransactionTables
          /\ dataset = <<>>
       \/ /\ products = <<>>
          /\ transactions = <<>>
          /\ dataset \in RealDatasets
    /\ sizes = [nc |-> 0, np |-> 0, nt |-> 0]
    /\ gen = <<>>
    /\ df = {}
    /\ result = NoResult
    /\ master = <<>>
    /\ pipe = "raw"
    /\ DashIdle

NextProfit ==
    \/ /\ transactions # <<>>
       /\ CleanAndMerge
    \/ /\ dataset # <<>>
       /\ LoadAndProcessRealData

SpecProfit == InitProfit /\ [][NextProfit]_vars

----------------------------------------------------------------------------
(* Properties of the pipelines *)

Abs(x) == IF x < 0 THEN 0 - x ELSE x

Count(t, status) == Cardinality({i \in DOMAIN t : t[i].status = status})

MasterRowsOf(id) == {i \in DOMAIN master : master[i].transaction_id = id}

\* The first row of table t whose key column holds k, as a nullable cell.
FirstRowWith(t, key, k) ==
    LET I == {i \in DOMAIN t : t[i][key] = k}
    IN  IF I = {} THEN Null ELSE Val(CHOOSE i \in I : \A j \in I : i <= j)

\* C1: the master table returned by clean_and_merge holds no row whose
\* status is not "Completed".
C1_CompletedOnly ==
    pipe = "synthetic" =>
        \A i \in DOMAIN master : master[i].status = "Completed"

\* C1 witness: clean_and_merge returned rows from an input that also held
\* Cancelled and Returned transactions.
C1_Witness ==
    /\ pipe = "synthetic"
    /\ master # <<>>
    /\ \E i, j \in DOMAIN transactions :
         /\ transactions[i].status = "Cancelled"
         /\ transactions[j].status = "Completed"

\* C2: the master table has exactly one row per Completed raw transaction
\* and none for any other: a Completed transaction is neither dropped (also
\* when its product_id or customer_id matches nothing, the joined columns
\* then being null) nor duplicated (also when the raw customers or products
\* hold repeated keys: the row joined is the first raw row of that key).
C2_OneRowPerCompleted ==
    pipe = "synthetic" =>
        /\ Len(master) = Count(transactions, "Completed")
        /\ \A i \in DOMAIN transactions :
             LET t == transactions[i]
                 rows == MasterRowsOf(t.transaction_id)
             IN  IF t.status # "Completed" THEN rows = {}
                 ELSE /\ Cardinality(rows) = 1
                      /\ \A r \in rows :
                           /\ master[r].cust_row =
                                FirstRowWith(customers, "customer_id",
                                             t.customer_id)
                           /\ master[r].prod_row =
                                FirstRowWith(products, "product_id",
                                             t.product_id)

\* C2 witness: a Completed transaction whose customer key is repeated in the
\* raw customers, and a Completed transaction whose product matches nothing.
C2_Witness ==
    /\ pipe = "synthetic"
    /\ \E i \in DOMAIN transactions :
         /\ transactions[i].status = "Completed"
         /\ Cardinality({c \in DOMAIN customers :
               customers[c].customer_id = transactions[i].customer_id}) > 1
    /\ \E i \in DOMAIN transactions :
         /\ transactions[i].status = "Completed"
         /\ \A q \in DOMAIN products :
               products[q].product_id # transactions[i].product_id
    /\ Len(master) = 2

\* C3: in the master table of either pipeline, every row's profit equals
\* (price - cost) * quantity - discount within half a cent (5 mills); a row
\* whose product matched nothing has null price and cost, and null profit.
C3_ProfitIdentity ==
    pipe \in {"synthetic", "real"} =>
        \A i \in DOMAIN master :
            LET r == master[i]
            IN  IF IsNull(r.price) \/ IsNull(r.cost) THEN IsNull(r.profit)
                ELSE /\ ~IsNull(r.profit)
                     /\ Abs(r.profit[1] - ((r.price[1] - r.cost[1]) * r.quantity
                                           - r.discount)) <= 5

\* C3 witness: the real pipeline returned a row whose profit was changed by
\* the rounding, and (separately) the synthetic one a row with a discount.
C3_Witness ==
    \/ /\ pipe = "real"
       /\ \E i \in DOMAIN master :
            LET r == master[i]
            IN  r.profit[1] # (r.price[1] - r.cost[1]) * r.quantity - r.discount
    \/ /\ pipe = "synthetic"
       /\ \E i \in DOMAIN master :
            /\ ~IsNull(master[i].profit)
            /\ master[i].discount > 0
            /\ master[i].quantity > 1

----------------------------------------------------------------------------
(* Properties of the generator *)

Column(t, f) == {t[i][f] : i \in DOMAIN t}

\* C4: every row returned by generate_transactions carries the customer_id
\* of a row of customers and the product_id of a row of products.
C4_ReferentialIntegrity ==
    \A r \in DOMAIN gen :
        gen[r].pc = "done" =>
            \A i \in DOMAIN gen[r].transactions :
                /\ gen[r].transactions[i].customer_id
                       \in Column(gen[r].customers, "customer_id")
                /\ gen[r].transactions[i].product_id
                       \in Column(gen[r].products, "product_id")

\* C4 witness: a finished run whose transactions sampled two different
\* customers out of the customers table.
C4_Witness ==
    \E r \in DOMAIN gen :
        /\ gen[r].pc = "done"
        /\ Len(gen[r].customers) > 1
        /\ Cardinality(Column(gen[r].transactions, "customer_id")) > 1

\* C5: two finished runs of the generator hold identical customers,
\* products and transactions tables.
C5_Reproducible ==
    (\A r \in DOMAIN gen : gen[r].pc = "done") =>
        \A r1, r2 \in DOMAIN gen :
            /\ gen[r1].customers = gen[r2].customers
            /\ gen[r1].products = gen[r2].products
            /\ gen[r1].transactions = gen[r2].transactions

----------------------------------------------------------------------------
(* Properties of compute_rfm *)

RfmReturned == result.op = "compute_rfm" /\ result.error = "none"

\* C6: in every compute_rfm result RFM_Score is R_Score + F_Score + M_Score
\* and lies in 3..15, and Segment follows from RFM_Score alone: Champions
\* from 12, Loyal for 9..11, Potential for 6..8, At Risk up to 5.
C6_ScoreAndSegment ==
    RfmReturned =>
        \A c \in DOMAIN result.table :
            LET r == result.table[c]
            IN  /\ r.RFM_Score = r.R_Score + r.F_Score + r.M_Score
                /\ r.RFM_Score \in 3..15
                /\ r.RFM_Score >= 12 => r.Segment = "Champions"
                /\ r.RFM_Score \in 9..11 => r.Segment = "Loyal"
                /\ r.RFM_Score \in 6..8 => r.Segment = "Potential"
                /\ r.RFM_Score <= 5 => r.Segment = "At Risk"

\* C6 witness: a result holding a customer with RFM_Score exactly 12 and a
\* customer with RFM_Score exactly 5.
C6_Witness ==
    /\ RfmReturned
    /\ \E a, b \in DOMAIN result.table :
         /\ result.table[a].RFM_Score = 12
         /\ result.table[b].RFM_Score = 5

\* C7 as stated: within one result each score is monotone in its metric,
\* Frequency included (so equal Frequency gives equal F_Score).
C7_MonotoneAsStated ==
    RfmReturned =>
        \A a, b \in DOMAIN result.table :
            LET x == result.table[a]
                y == result.table[b]
            IN  /\ x.Recency <= y.Recency => x.R_Score >= y.R_Score
                /\ x.Frequency <= y.Frequency => x.F_Score <= y.F_Score
                /\ x.Monetary <= y.Monetary => x.M_Score <= y.M_Score

\* C7 amended: R_Score is non-increasing in Recency and M_Score
\* non-decreasing in Monetary; a strictly smaller Frequency never gets a
\* larger F_Score, and among customers of equal Frequency F_Score is
\* non-decreasing in customer_id order (the order rank(method="first")
\* breaks ties in), so equal Frequency may get different F_Scores.
C7_MonotoneAmended ==
    RfmReturned =>
        \A a, b \in DOMAIN result.table :
            LET x == result.table[a]
                y == result.table[b]
            IN  /\ x.Recency <= y.Recency => x.R_Score >= y.R_Score
                /\ x.Frequency < y.Frequency => x.F_Score <= y.F_Score
                /\ (x.Frequency = y.Frequency /\ a < b)
                       => x.F_Score <= y.F_Score
                /\ x.Monetary <= y.Monetary => x.M_Score <= y.M_Score

\* C7 witness: a result with two customers of equal Frequency and different
\* F_Score, and two customers of different Frequency.
C7_Witness ==
    /\ RfmReturned
    /\ \E a, b \in DOMAIN result.table :
         /\ result.table[a].Frequency = result.table[b].Frequency
         /\ result.table[a].F_Score # result.table[b].F_Score
    /\ \E a, b \in DOMAIN result.table :
         result.table[a].Frequency < result.table[b].Frequency

\* Two of the six quintile edges of f coincide.
RepeatedEdges(f) == Cardinality(BinEdges(f, 5)) < 6

\* C8: on an input whose Recency or Monetary quintile edges coincide,
\* compute_rfm raises nothing and returns a scored row for every customer.
C8_ToleratesRepeatedEdges ==
    (/\ result.op = "compute_rfm"
     /\ RepeatedEdges(RecencyOf(df)) \/ RepeatedEdges(MonetaryOf(df)))
        => /\ result.error = "none"
           /\ DOMAIN result.table = CustomersOf(df)

----------------------------------------------------------------------------
(* Properties of identify_churned_customers *)

ChurnReturned == result.op = "identify_churned_customers"

\* The bucket the interval table Low [0,30], Medium (30,60], High (60,90],
\* Churned (90,inf) gives d days.
BucketOf(d) ==
    IF d <= 30 THEN "Low"
    ELSE IF d <= 60 THEN "Medium"
    ELSE IF d <= 90 THEN "High"
    ELSE "Churned"

\* C9: every customer gets exactly one Churn_Risk bucket from its
\* Days_Since_Purchase d, Low for 0 <= d <= 30 with d = 0 included, and no
\* customer is left without a bucket.
C9_EveryCustomerBucketed ==
    ChurnReturned =>
        \A c \in DOMAIN result.table :
            LET r == result.table[c]
            IN  r.Churn_Risk = Val(BucketOf(r.Days_Since_Purchase))

\* C10: Days_Since_Purchase is the whole days from the customer's last
\* transaction to the latest transaction of the table, so it is never
\* negative and is 0 for some customer, every customer of the table has a
\* row, and Is_Churned holds exactly when Days_Since_Purchase exceeds the
\* threshold passed in.
C10_DaysAndChurnFlag ==
    ChurnReturned =>
        LET latest == MaxOf({r.transaction_date : r \in df})
        IN  /\ DOMAIN result.table = CustomersOf(df)
            /\ \A c \in DOMAIN result.table :
                 LET r == result.table[c]
                     last == MaxOf({x.transaction_date : x \in RowsOf(df, c)})
                     d == r.Days_Since_Purchase
                 IN  /\ d >= 0
                     /\ d * TicksPerDay <= latest - last
                     /\ latest - last < (d + 1) * TicksPerDay
                     /\ r.Is_Churned <=> (d > result.arg)
            /\ \E c \in DOMAIN result.table :
                 result.table[c].Days_Since_Purchase = 0

\* C10 witness: a result where one customer's gap equals the threshold (not
\* churned), another's exceeds it by a day (churned), and a gap that is not
\* a whole number of days was rounded down.
C10_Witness ==
    /\ ChurnReturned
    /\ \E a, b \in DOMAIN result.table :
         /\ result.table[a].Days_Since_Purchase = result.arg
         /\ ~result.table[a].Is_Churned
         /\ result.table[b].Days_Since_Purchase = result.arg + 1
         /\ result.table[b].Is_Churned
    /\ \E c \in DOMAIN result.table :
         (MaxOf({r.transaction_date : r \in df})
            - result.table[c].Last_Purchase_Date) % TicksPerDay # 0

----------------------------------------------------------------------------
(* Properties of cohort_analysis *)

CohortReturned == result.op = "cohort_analysis" /\ result.error = "none"

\* The customers whose first purchase falls in month cm.
CohortMembers(d, cm) ==
    {c \in CustomersOf(d) :
        /\ \A r \in RowsOf(d, c) : Days(r.transaction_date) >= MonthStarts[cm]
        /\ \E x \in RowsOf(d, c) : Days(x.transaction_date) < MonthStarts[cm + 1]}

\* C11: in the retention table cohort_analysis returns, the first column is
\* cohort index 0, every cohort month present has exactly 100 in it, and the
\* cohort size it was normalised by is the number of customers of the cohort
\* (the index-0 column of the pivot).
C11_IndexZeroIsHundred ==
    CohortReturned =>
        /\ result.table.columns[1] = 0
        /\ \A cm \in result.table.index :
              /\ ~IsNull(result.table.values[cm][0])
              /\ result.table.values[cm][0][1].num
                    = 100 * result.table.values[cm][0][1].den
              /\ CohortSize(CohortPivot(df))[cm]
                    = Val(Cardinality(CohortMembers(df, cm)))
              /\ CohortSize(CohortPivot(df))[cm]
                    = CohortPivot(df).values[cm][0]

\* A cohort of which only a part came back in a later month: the table has
\* a column after index 0, with a retention below 100 in it.
C11_Witness ==
    /\ CohortReturned
    /\ Len(result.table.columns) >= 2
    /\ \E cm \in result.table.index : \E ci \in DOMAIN result.table.values[cm] :
          /\ ci > 0
          /\ ~IsNull(result.table.values[cm][ci])
          /\ result.table.values[cm][ci][1].num
                < 100 * result.table.values[cm][ci][1].den

\* All transactions of the table fall in one calendar month.
SingleMonth(d) ==
    Cardinality({MonthOfDay(Days(r.transaction_date)) : r \in d}) = 1

\* C12: a call of cohort_analysis on a table whose transactions all fall in
\* a single calendar month ends in an error, not in a retention table.
C12_SingleMonthFails ==
    (result.op = "cohort_analysis" /\ SingleMonth(df)) => result.error # "none"

----------------------------------------------------------------------------
(* Properties of market_basket_analysis *)

BasketReturned == result.op = "market_basket_analysis" /\ result.error = "none"

Frac(n, d) == [num |-> n, den |-> d]

\* a = b for two fractions with positive denominators.
FracEq(a, b) == a.num * b.den = b.num * a.den

\* The transactions of the table that contain the item.
TransactionsWith(d, item) ==
    {r.transaction_id : r \in {x \in d : x.product_name = item}}

\* T, c1 or c2, and c12 of the rule metrics.
CountT(d) == Cardinality({r.transaction_id : r \in d})

CountItem(d, item) == Cardinality(TransactionsWith(d, item))

CountBoth(d, a, b) ==
    Cardinality(TransactionsWith(d, a) \cap TransactionsWith(d, b))

\* C13: every rule row has Support = c12 / T, Confidence_1_to_2 = c12 / c1,
\* Confidence_2_to_1 = c12 / c2 and Lift = (c12 * T) / (c1 * c2), the counts
\* being numbers of transactions, so that an item on two lines of one
\* transaction counts once; ten transactions with the pair in three and each
\* item in five give 0.3, 0.6, 0.6 and 1.2.
C13_RuleMetrics ==
    BasketReturned =>
        \A i \in DOMAIN result.table.rows :
            LET row == result.table.rows[i]
                T == CountT(df)
                c1 == CountItem(df, row.Item_1)
                c2 == CountItem(df, row.Item_2)
                c12 == CountBoth(df, row.Item_1, row.Item_2)
            IN  /\ FracEq(row.Support, Frac(c12, T))
                /\ FracEq(row.Confidence_1_to_2, Frac(c12, c1))
                /\ FracEq(row.Confidence_2_to_1, Frac(c12, c2))
                /\ FracEq(row.Lift, Frac(c12 * T, c1 * c2))
                /\ row.Support.den > 0 /\ row.Lift.den > 0
                /\ row.Confidence_1_to_2.den > 0 /\ row.Confidence_2_to_1.den > 0
                /\ (df = BasketExample /\ row.Item_1 = 1 /\ row.Item_2 = 2) =>
                      /\ FracEq(row.Support, Frac(3, 10))
                      /\ FracEq(row.Confidence_1_to_2, Frac(6, 10))
                      /\ FracEq(row.Confidence_2_to_1, Frac(6, 10))
                      /\ FracEq(row.Lift, Frac(12, 10))

\* The ten-transaction table, item 1 on two lines of its first transaction,
\* with the rule for items 1 and 2 returned.
C13_Witness ==
    /\ BasketReturned
    /\ df = BasketExample
    /\ \E r1, r2 \in df : r1 # r2 /\ r1.transaction_id = r2.transaction_id
                          /\ r1.product_name = r2.product_name
    /\ \E i \in DOMAIN result.table.rows :
          result.table.rows[i].Item_1 = 1 /\ result.table.rows[i].Item_2 = 2

\* The unordered pairs of distinct items that occur together in a transaction
\* and pass the two thresholds of the call.
QualifyingPairs(d, min_support, min_confidence) ==
    LET items == {r.product_name : r \in d}
    IN  {p \in items \X items :
            /\ p[1] < p[2]
            /\ CountBoth(d, p[1], p[2]) >= 1
            /\ FracGe(Frac(CountBoth(d, p[1], p[2]), CountT(d)), min_support)
            /\ \/ FracGe(Frac(CountBoth(d, p[1], p[2]), CountItem(d, p[1])),
                         min_confidence)
               \/ FracGe(Frac(CountBoth(d, p[1], p[2]), CountItem(d, p[2])),
                         min_confidence)}

\* C14: the rule table has exactly one row for each unordered pair of
\* distinct co-occurring items with Support >= min_support and at least one
\* confidence >= min_confidence, and no other row; it has the six columns
\* Item_1 .. Lift, also when it is empty.
C14_ExactlyQualifyingPairs ==
    BasketReturned =>
        LET rows == result.table.rows
            Q == QualifyingPairs(df, result.arg.min_support,
                                 result.arg.min_confidence)
        IN  /\ {<<rows[i].Item_1, rows[i].Item_2>> : i \in DOMAIN rows} = Q
            /\ Len(rows) = Cardinality(Q)
            /\ result.table.columns
                  = <<"Item_1", "Item_2", "Support", "Confidence_1_to_2",
                      "Confidence_2_to_1", "Lift">>

\* A call that returned a rule for one pair and none for another pair that
\* occurs together but misses a threshold.
C14_Witness ==
    /\ BasketReturned
    /\ Len(result.table.rows) >= 1
    /\ \E a, b \in {r.product_name : r \in df} :
          /\ a < b
          /\ CountBoth(df, a, b) >= 1
          /\ \A i \in DOMAIN result.table.rows :
                <<result.table.rows[i].Item_1, result.table.rows[i].Item_2>>
                   # <<a, b>>

----------------------------------------------------------------------------
(* Properties of the forecasts *)

\* A forecast call that succeeded: it returned its tables.
ForecastSucceeded ==
    /\ result.op \in {"arima_sales_forecast", "exponential_smoothing_forecast"}
    /\ result.error = "none"
    /\ ~IsNull(result.table.forecast)

\* The number of the day, week (Monday to Sunday) or month a day lies in.
PeriodIndex(freq, day) ==
    CASE freq = "M" -> MonthOfDay(day)
      [] freq = "W" -> (day + 5) \div 7
      [] OTHER -> day

\* C15: a forecast that succeeds with periods = k has exactly k rows, with
\* strictly increasing dates, and its i-th row lies in the i-th period
\* (month, week or day) after the period of the last historical date: one
\* step between consecutive rows, no period skipped after the history.
C15_ForecastHorizon ==
    ForecastSucceeded =>
        LET forecast == result.table.forecast[1]
            historical == result.table.historical[1]
            last_date == historical[Len(historical)].Date
        IN  /\ Len(forecast) = result.arg.periods
            /\ \A i, j \in DOMAIN forecast :
                  i < j => forecast[i].Date < forecast[j].Date
            /\ \A i \in DOMAIN forecast :
                  PeriodIndex(result.arg.freq, forecast[i].Date)
                     = PeriodIndex(result.arg.freq, last_date) + i

\* The periods of the table that have a positive revenue.
PositivePeriods(d, freq) ==
    {p \in {PeriodIndex(freq, Days(r.transaction_date)) : r \in d} :
        SumAmount({r \in d : PeriodIndex(freq, Days(r.transaction_date)) = p}) > 0}

\* Every row of the table has a transaction_date.
HasDates(d) == \A r \in d : "transaction_date" \in DOMAIN r

\* What makes a forecast call fail: no transaction_date column to resample
\* on, or a fit that raised.
ForecastFails(d) == ~HasDates(d) \/ result.arg.fit # "ok"

\* C16: neither forecast raises to its caller.  arima_sales_forecast returns
\* (None, None, None) when resampling fails, when fewer than 10 periods have
\* a positive revenue or when fitting fails; exponential_smoothing_forecast
\* returns (None, None) when resampling or fitting fails or when no period
\* has a positive revenue.
C16_FailuresReturnNone ==
    /\ result.op = "arima_sales_forecast" =>
          /\ result.error = "none"
          /\ (\/ ForecastFails(df)
              \/ Cardinality(PositivePeriods(df, result.arg.freq)) < 10)
                => result.table = [historical |-> Null, forecast |-> Null,
                                   summary |-> Null]
    /\ result.op = "exponential_smoothing_forecast" =>
          /\ result.error = "none"
          /\ (\/ ForecastFails(df)
              \/ PositivePeriods(df, result.arg.freq) = {})
                => result.table = [historical |-> Null, forecast |-> Null]

\* An ARIMA call on nine periods of revenue whose fit would have succeeded.
C16_Witness ==
    /\ result.op = "arima_sales_forecast"
    /\ result.arg.fit = "ok"
    /\ HasDates(df)
    /\ Cardinality(PositivePeriods(df, result.arg.freq)) = 9
    /\ result.table.forecast = Null

----------------------------------------------------------------------------
(* Properties of the dashboard session *)

\* The latest run of the script got as far as the filters.
Filtered == ~run.halted /\ ~IsNull(run.filtered_df)

\* The row passes every filter that is active under the widget values w: a
\* complete date range keeps the timestamps from the first tick of
\* start_date to the last tick of end_date, a selection other than "All"
\* keeps the rows with that value.
PassesActiveFilters(r, w) ==
    /\ Len(w.date_range) = 2 =>
          /\ r.transaction_date >= w.date_range[1] * TicksPerDay
          /\ r.transaction_date < (w.date_range[2] + 1) * TicksPerDay
    /\ w.selected_category # "All" => r.category = <<w.selected_category>>
    /\ w.selected_city # "All" => r.city = <<w.selected_city>>
    /\ w.selected_gender # "All" => r.gender = <<w.selected_gender>>
    /\ w.selected_device # "All" => r.device_type = <<w.selected_device>>

\* C17: for every combination of the global filters, the filtered working
\* table is exactly the set of master-table rows that pass all active
\* filters at once (date bounds inclusive at both ends); it is a subset of
\* the master table, never larger, and with every filter at "All" and the
\* full date range no row is removed.
C17_FilterComposition ==
    Filtered =>
        LET w == run.widgets[1]
            table == run.df[1]
            filtered_df == run.filtered_df[1]
        IN  /\ filtered_df = {r \in table : PassesActiveFilters(r, w)}
            /\ filtered_df \subseteq table
            /\ Cardinality(filtered_df) <= Cardinality(table)
            /\ (/\ w.selected_category = "All" /\ w.selected_city = "All"
                /\ w.selected_gender = "All" /\ w.selected_device = "All"
                /\ w.date_range \in {<<run.sidebar[1].min_date>>,
                                     <<run.sidebar[1].min_date,
                                       run.sidebar[1].max_date>>})
                  => filtered_df = table

\* A run with a narrowed date range and a category selected, which keeps a
\* transaction made late on the end date and removes another row.
C17_Witness ==
    /\ Filtered
    /\ Len(run.widgets[1].date_range) = 2
    /\ run.widgets[1].date_range[2] < run.sidebar[1].max_date
    /\ run.widgets[1].selected_category # "All"
    /\ run.filtered_df[1] # run.df[1]
    /\ \E r \in run.filtered_df[1] :
          /\ Days(r.transaction_date) = run.widgets[1].date_range[2]
          /\ r.transaction_date > run.widgets[1].date_range[2] * TicksPerDay

\* C19: a run of the script that finds no master-table file (and no cached
\* table) shows the error that tells the user to run the processing
\* pipeline and halts: it builds no sidebar, applies no filter and renders no
\* page.
C19_MissingFileHalts ==
    [][(file = Null /\ cache = Null /\ (run' # run \/ reads' # reads)) =>
          /\ run'.halted
          /\ run'.error = "Master dataset not found!  Please run: python src/real_data_processing.py"
          /\ run'.sidebar = Null
          /\ run'.widgets = Null
          /\ run'.filtered_df = Null
          /\ run'.page = "none"
          /\ cache' = Null /\ reads' = reads]_vars

\* The script has run without the file and halted.
C19_Witness ==
    /\ run.halted
    /\ file = Null
    /\ cache = Null
    /\ run.page = "none"

\* C20: once the master table has been loaded, no step of the session reads
\* the file again or changes the cached table, and every run of the script
\* starts from the cached table, whatever has happened to the file.
C20_LoadedOnce ==
    [][cache # Null =>
          /\ reads' = reads
          /\ cache' = cache
          /\ run' # run => (~run'.halted /\ run'.df = cache)]_vars

\* After a filter was applied the table is still cached, read once, and the
\* file on disk is no longer the one that was read.
C20_Witness ==
    /\ cache # Null
    /\ reads = 1
    /\ file # cache
    /\ Filtered
    /\ run.filtered_df # run.df
    /\ run.df = cache

----------------------------------------------------------------------------
(* Properties of the real-dataset analytics *)

\* C18: no call of an analytics function changes the table it is given: the
\* caller's table has the same columns and the same rows after the call as
\* before it.
C18_InputUnchanged == [][result'.op # result.op => df' = df]_vars

----------------------------------------------------------------------------
(* Properties of the dashboard session: table shapes and the date input *)

\* The latest run of the script loaded a master table of the synthetic
\* shape, one without the behavioural columns.
SyntheticShapeLoaded ==
    /\ ~IsNull(run.df)
    /\ \A r \in run.df[1] : "device_type" \notin DOMAIN r

\* C21: a run of the dashboard on a master table of the synthetic shape
\* (no device_type and no other behavioural column) raises no error: it
\* builds its sidebar, applies its filters and renders a page.
C21_SyntheticShapeTolerated ==
    SyntheticShapeLoaded =>
        /\ run.error = "none"
        /\ ~IsNull(run.sidebar)
        /\ ~IsNull(run.filtered_df)
        /\ run.page # "none"

\* C30: while the date input holds a single date, the run applies no date
\* restriction: the working table is the master table narrowed by the
\* selections other than "All" only.
C30_SingleDateNoRestriction ==
    (Filtered /\ Len(run.widgets[1].date_range) = 1) =>
        run.filtered_df[1] =
            {r \in run.df[1] :
                /\ run.widgets[1].selected_category # "All"
                      => r.category = Val(run.widgets[1].selected_category)
                /\ run.widgets[1].selected_city # "All"
                      => r.city = Val(run.widgets[1].selected_city)
                /\ run.widgets[1].selected_gender # "All"
                      => r.gender = Val(run.widgets[1].selected_gender)
                /\ run.widgets[1].selected_device # "All"
                      => r.device_type = Val(run.widgets[1].selected_device)}

\* A run with one date picked and a city selected: a row of another day is
\* kept, a row of another city is removed.
C30_Witness ==
    /\ Filtered
    /\ Len(run.widgets[1].date_range) = 1
    /\ run.widgets[1].selected_city # "All"
    /\ run.filtered_df[1] # run.df[1]
    /\ \E r \in run.filtered_df[1] :
          Days(r.transaction_date) # run.widgets[1].date_range[1]

----------------------------------------------------------------------------
(* Properties of the churn buckets across thresholds *)

\* C29: the Churn_Risk of a customer is the same whatever threshold
\* identify_churned_customers is called with, and its Is_Churned flag
\* differs from "Churn_Risk is Churned" exactly for a customer whose
\* Days_Since_Purchase lies between 90 and the threshold (above the smaller,
\* up to the larger): for no customer when the threshold is 90.
C29_RiskIgnoresThreshold ==
    ChurnReturned =>
        /\ \A t \in Thresholds : \A c \in DOMAIN result.table :
              IdentifyChurnedTable(df, t).table[c].Churn_Risk
                  = result.table[c].Churn_Risk
        /\ \A c \in DOMAIN result.table :
              LET r == result.table[c]
                  d == r.Days_Since_Purchase
              IN  (r.Is_Churned # (r.Churn_Risk = Val("Churned")))
                     <=> \/ (result.arg < d /\ d <= 90)
                         \/ (90 < d /\ d <= result.arg)
        /\ result.arg = 90 =>
              \A c \in DOMAIN result.table :
                  result.table[c].Is_Churned
                      <=> result.table[c].Churn_Risk = Val("Churned")

\* A call with a threshold other than 90 that flags a customer as churned
\* whose bucket is not Churned, while the bucket is what a call with 90
\* gives.
C29_Witness ==
    /\ ChurnReturned
    /\ result.arg # 90
    /\ \E c \in DOMAIN result.table :
          /\ result.table[c].Is_Churned
          /\ result.table[c].Churn_Risk # Val("Churned")
          /\ result.table[c].Churn_Risk
                = IdentifyChurnedTable(df, 90).table[c].Churn_Risk

----------------------------------------------------------------------------
(* Properties of session_behavior_analysis *)

\* C27: the Transactions of the four session segments add up to the number
\* of rows of the table, whatever the session durations (0 minutes and more
\* than 120 minutes included).
C27_EveryTransactionCounted ==
    result.op = "session_behavior_analysis" =>
        result.table[1].Transactions + result.table[2].Transactions
            + result.table[3].Transactions + result.table[4].Transactions
          = Cardinality(df)

----------------------------------------------------------------------------
(* Properties of market_basket_analysis on one-product transactions *)

\* Each transaction_id occurs on exactly one row of the table.
OneRowPerTransaction(d) ==
    \A a \in d : \A b \in d : a.transaction_id = b.transaction_id => a = b

\* C28: on a table in which each transaction_id occurs on exactly one row,
\* market_basket_analysis returns the rule table with its six columns and no
\* row, for every min_support and min_confidence.
C28_SingleItemBasketsNoRules ==
    (BasketReturned /\ OneRowPerTransaction(df)) =>
        /\ result.table.rows = <<>>
        /\ Len(result.table.columns) = 6

\* A call on three transactions of one row each, with different products,
\* that returned no rule.
C28_Witness ==
    /\ BasketReturned
    /\ OneRowPerTransaction(df)
    /\ Cardinality(df) >= 3
    /\ Cardinality({r.product_name : r \in df}) >= 2
    /\ result.table.rows = <<>>

----------------------------------------------------------------------------
(* Properties of customer_purchase_patterns *)

\* C24: Avg_Days_Between_Purchases of a customer with n > 1 purchases is
\* the days from the first to the last purchase divided by n - 1, the number
\* of gaps between consecutive purchases, and it is 0 for a customer with
\* one purchase.
C24_AverageGap ==
    result.op = "customer_purchase_patterns" =>
        \A c \in DOMAIN result.table :
            LET avg == result.table[c].Avg_Days_Between_Purchases
                dates == {r.transaction_date : r \in RowsOf(df, c)}
                n == Cardinality(RowsOf(df, c))
            IN  IF n > 1
                THEN avg.num * (n - 1)
                        = Days(MaxOf(dates) - MinOf(dates)) * avg.den
                ELSE avg.num = 0

----------------------------------------------------------------------------
(* Properties of returning_customer_analysis *)

\* C26: on every non-empty table returning_customer_analysis returns
\* without error, the row labelled "New Customer" holding the statistics
\* of the rows with is_returning = False and the row labelled "Returning
\* Customer" those of the rows with is_returning = True, also when only one
\* of the two groups occurs in the table.
C26_LabelsFollowFlag ==
    result.op = "returning_customer_analysis" =>
        /\ result.error = "none"
        /\ \A i \in DOMAIN result.table :
              result.table[i].Transactions =
                  Cardinality({r \in df : r.is_returning
                      = (result.table[i].index = "Returning Customer")})

----------------------------------------------------------------------------
(* Properties of the Product Profitability tab *)

\* The revenue of a product in the table d.
RevenueOf(d, p) == SumAmount({r \in d : r.product_name = p})

\* C25: the chart "Top N Products by Revenue" shows N products, or all of
\* them when there are fewer, and no product left out has a higher Revenue
\* than a product shown.
C25_TopNByRevenue ==
    result.op = "product_profitability_tab" =>
        LET names == {r.product_name : r \in df}
            shown == {row.product_name : row \in result.table}
        IN  /\ Cardinality(shown)
                  = (IF Cardinality(names) < result.arg
                     THEN Cardinality(names) ELSE result.arg)
            /\ \A row \in result.table :
                  row.Revenue = RevenueOf(df, row.product_name)
            /\ \A p \in shown : \A q \in names \ shown :
                  RevenueOf(df, p) >= RevenueOf(df, q)

----------------------------------------------------------------------------
(* Properties of the Customer Insights page *)

\* C22: whatever the filtered table, the Customer Insights page ends
\* without an uncaught error and renders the lifetime-value, churn and cohort
\* panels; a table too small for the RFM quintiles costs the RFM panel only.
C22_InsufficientDataNonFatal ==
    result.op = "customer_insights_page" =>
        /\ result.error = "none"
        /\ \A panel \in {"Customer Lifetime Value", "Churn Analysis",
                         "Cohort Retention Analysis"} :
              \E i \in DOMAIN result.table : result.table[i] = panel

----------------------------------------------------------------------------
(* Properties of the real-schema pipeline's main *)

\* C23: a run of main that ended in one of its except branches has not
\* written master_dataset.csv.
C23_ErrorMeansNoWrite ==
    pipe \in {"FileNotFoundError", "Exception"} => file = Null

====
